---- MODULE Spec2Model ----
(***************************************************************************)
(* A model of the text-fitting and rendering pipeline of MemeGeneratorClean *)
(* (src/meme-bot/meme_generator_clean.py; the twitter-meme-bot copy of     *)
(* _calculate_font_size, _wrap_text and create_meme is line-for-line the   *)
(* same).                                                                  *)
(*                                                                         *)
(* Strings are sequences of one-character strings.  Widths returned by     *)
(* font.getlength are kept in units of 1/EmUnits pixel, so that every      *)
(* comparison the code makes on floats is made here on integers, exactly.  *)
(***************************************************************************)
EXTENDS Integers, Sequences, FiniteSets, TLC

\* ------------------------------------------------------------------ bounds

\* Longest text (in characters) given to _wrap_text and _calculate_font_size.
MaxLen == 6
\* Largest max_width (in pixels) given to _wrap_text.
MaxWrapWidth == 6
\* Most words in a caption given to create_meme.
MaxWords == 6
\* Most lines in a reply of the model given to the caption parsers.
MaxRawLines == 3
\* Most entries in the template listing.
MaxListing == 2
\* Most passes of the template selection loop that pick a portrait entry.
MaxPicks == 2
\* Seconds the clock can advance.
MaxClock == 1
\* Most requests a handler thread serves.
MaxRequests == 2

Min(a, b) == IF a <= b THEN a ELSE b
Max(a, b) == IF a >= b THEN a ELSE b

\* ------------------------------------------------------------ text and font

\* The characters of the model: a narrow glyph, a wide glyph and the blank.
Chars == {"i", "W", " "}

\* Advance widths are multiples of 1/EmUnits em.
EmUnits == 4

\* The advance width of a glyph, in 1/EmUnits em.
Advance(c) == CASE c = "W" -> 3
                [] c = "i" -> 1
                [] OTHER   -> 1

RECURSIVE SumAdvance(_)
SumAdvance(s) == IF s = <<>> THEN 0 ELSE Advance(Head(s)) + SumAdvance(Tail(s))

\* font.getlength(s) for the font at `size`, in 1/EmUnits pixel.
GetLength(s, size) == size * SumAdvance(s)

\* str.split(): the maximal runs of non-blank characters, in order.
RECURSIVE SplitFrom(_, _, _)
SplitFrom(s, i, cur) ==
    IF i > Len(s)
    THEN IF cur = <<>> THEN <<>> ELSE <<cur>>
    ELSE IF s[i] = " "
         THEN (IF cur = <<>> THEN <<>> ELSE <<cur>>) \o SplitFrom(s, i + 1, <<>>)
         ELSE SplitFrom(s, i + 1, Append(cur, s[i]))

Split(s) == SplitFrom(s, 1, <<>>)

\* ' '.join(ws)
RECURSIVE Join(_)
Join(ws) == IF ws = <<>> THEN <<>>
            ELSE IF Len(ws) = 1 THEN ws[1]
            ELSE ws[1] \o <<" ">> \o Join(Tail(ws))

\* All strings of at most n characters.
RECURSIVE StringsUpTo(_)
StringsUpTo(n) ==
    IF n = 0 THEN {<<>>}
    ELSE LET S == StringsUpTo(n - 1)
         IN  S \cup {Append(s, c) : s \in {t \in S : Len(t) = n - 1}, c \in Chars}

\* -------------------------------------------------------------- _wrap_text

\* The state of the loop of _wrap_text before its first word.
WrapStart == [lines |-> <<>>, current_line |-> <<>>]

\* A loop body that emits the line with the word that made it too wide.
WrapWordNoPop(st, word, size, max_width) ==
    LET cur == Append(st.current_line, word)
    IN  IF GetLength(Join(cur), size) > max_width * EmUnits
        THEN IF Len(cur) = 1
             THEN [lines |-> Append(st.lines, cur[1]), current_line |-> <<>>]
             ELSE [lines |-> Append(st.lines, Join(cur)), current_line |-> <<>>]
        ELSE [lines |-> st.lines, current_line |-> cur]

\* A loop body that starts the next line empty after a break.
WrapWordDrop(st, word, size, max_width) ==
    LET cur == Append(st.current_line, word)
    IN  IF GetLength(Join(cur), size) > max_width * EmUnits
        THEN IF Len(cur) = 1
             THEN [lines |-> Append(st.lines, cur[1]), current_line |-> <<>>]
             ELSE [lines |-> Append(st.lines, Join(SubSeq(cur, 1, Len(cur) - 1))),
                   current_line |-> <<>>]
        ELSE [lines |-> st.lines, current_line |-> cur]

\* A loop body that keeps an over-long single word in the line it has emitted.
WrapWordKeep(st, word, size, max_width) ==
    LET cur == Append(st.current_line, word)
    IN  IF GetLength(Join(cur), size) > max_width * EmUnits
        THEN IF Len(cur) = 1
             THEN [lines |-> Append(st.lines, cur[1]), current_line |-> cur]
             ELSE [lines |-> Append(st.lines, Join(SubSeq(cur, 1, Len(cur) - 1))),
                   current_line |-> <<word>>]
        ELSE [lines |-> st.lines, current_line |-> cur]

\* A loop body that breaks a line as soon as it reaches max_width.
WrapWordAtLimit(st, word, size, max_width) ==
    LET cur == Append(st.current_line, word)
    IN  IF GetLength(Join(cur), size) >= max_width * EmUnits
        THEN IF Len(cur) = 1
             THEN [lines |-> Append(st.lines, cur[1]), current_line |-> <<>>]
             ELSE [lines |-> Append(st.lines, Join(SubSeq(cur, 1, Len(cur) - 1))),
                   current_line |-> <<word>>]
        ELSE [lines |-> st.lines, current_line |-> cur]

\* One pass of the loop body of _wrap_text for `word`.
WrapWord(st, word, size, max_width) ==
    LET cur == Append(st.current_line, word)
    IN  IF GetLength(Join(cur), size) > max_width * EmUnits
        THEN IF Len(cur) = 1
             THEN [lines |-> Append(st.lines, cur[1]), current_line |-> <<>>]
             ELSE [lines |-> Append(st.lines, Join(SubSeq(cur, 1, Len(cur) - 1))),
                   current_line |-> <<word>>]
        ELSE [lines |-> st.lines, current_line |-> cur]

\* The end of _wrap_text: the remaining line, if any, is emitted.
WrapFinish(st) ==
    IF st.current_line # <<>> THEN Append(st.lines, Join(st.current_line))
    ELSE st.lines

RECURSIVE WrapLoop(_, _, _, _, _)
WrapLoop(st, words, i, size, max_width) ==
    IF i > Len(words) THEN WrapFinish(st)
    ELSE WrapLoop(WrapWord(st, words[i], size, max_width), words, i + 1, size, max_width)

\* _wrap_text(text, font, max_width), for the font at `size`.
WrapText(text, size, max_width) == WrapLoop(WrapStart, Split(text), 1, size, max_width)

\* ------------------------------------------- double-precision arithmetic
\* A positive double is [bits, exp]: MantBits binary digits, the first of
\* them 1, most significant first, standing for the integer m, and the value
\* m * 2^exp.  Python's int/int division and float product are correctly
\* rounded (to nearest, ties to even); int() truncates.

\* The number of binary digits of a double's significand.
MantBits == 53

RECURSIVE Pow2(_)
Pow2(k) == IF k = 0 THEN 1 ELSE 2 * Pow2(k - 1)

\* The binary digits of n > 0, most significant first.
RECURSIVE BitsOf(_)
BitsOf(n) == IF n = 0 THEN <<>> ELSE Append(BitsOf(n \div 2), n % 2)

\* The integer a sequence of binary digits stands for.
RECURSIVE BitsValue(_)
BitsValue(b) ==
    IF b = <<>> THEN 0 ELSE 2 * BitsValue(SubSeq(b, 1, Len(b) - 1)) + b[Len(b)]

\* The k binary digits of x < 2^k.
FixedBits(x, k) == [j \in 1..k |-> (x \div Pow2(k - j)) % 2]

\* b + 1; one digit longer when b is all ones.
BitsIncrement(b) ==
    IF \A i \in 1..Len(b) : b[i] = 1
    THEN <<1>> \o [i \in 1..Len(b) |-> 0]
    ELSE LET p == CHOOSE i \in 1..Len(b) :
                      b[i] = 0 /\ \A j \in (i + 1)..Len(b) : b[j] = 1
         IN  [i \in 1..Len(b) |-> IF i < p THEN b[i] ELSE IF i = p THEN 1 ELSE 0]

\* 2^k modulo m, for m > 1.
RECURSIVE PowMod2(_, _)
PowMod2(k, m) ==
    IF k = 0 THEN 1
    ELSE LET h == PowMod2(k \div 2, m)
         IN  IF k % 2 = 0 THEN (h * h) % m ELSE (2 * ((h * h) % m)) % m

\* The remainder of the long division of num by den after i quotient digits.
DivRemainder(num, den, i) ==
    IF den = 1 THEN 0 ELSE ((num % den) * PowMod2(i - 1, den)) % den

\* The first n quotient digits of num/den, for den <= num < 2*den, and whether
\* a remainder is left after them: digit 1 is the integer part, and digit i + 1
\* tells whether twice the remainder after digit i reaches den.
DivDigits(num, den, n) ==
    [bits   |-> [i \in 1..n |->
                    IF i = 1 THEN 1
                    ELSE IF 2 * DivRemainder(num, den, i - 1) >= den THEN 1 ELSE 0],
     sticky |-> DivRemainder(num, den, n) # 0]

\* The digits a product is worked out in at a time.
LimbBits == 14

\* n * (the integer b stands for), as binary digits, for 0 < n < 2^16.
RECURSIVE MulDigits(_, _, _)
MulDigits(b, n, carry) ==
    IF Len(b) = 0 THEN BitsOf(carry)
    ELSE LET k   == Min(Len(b), LimbBits)
             lo  == BitsValue(SubSeq(b, Len(b) - k + 1, Len(b)))
             acc == n * lo + carry
         IN  MulDigits(SubSeq(b, 1, Len(b) - k), n, acc \div Pow2(k))
                 \o FixedBits(acc % Pow2(k), k)

\* The double nearest to b * 2^exp (plus a nonzero tail when sticky), for b of
\* more than MantBits digits starting with 1: to nearest, ties to even.
RoundNearestEven(b, sticky, exp) ==
    LET keep == SubSeq(b, 1, MantBits)
        cut  == SubSeq(b, MantBits + 1, Len(b))
        more == sticky \/ \E i \in 2..Len(cut) : cut[i] = 1
        up   == cut[1] = 1 /\ (more \/ keep[MantBits] = 1)
        inc  == IF up THEN BitsIncrement(keep) ELSE keep
    IN  [bits |-> SubSeq(inc, 1, MantBits),
         exp  |-> exp + (Len(b) - MantBits) + (Len(inc) - MantBits)]

\* The largest k >= 0 with den * 2^k <= num, for num >= den > 0.
RECURSIVE ShiftDown(_, _)
ShiftDown(num, den) == IF 2 * den <= num THEN 1 + ShiftDown(num, 2 * den) ELSE 0

\* The smallest k >= 0 with num * 2^k >= den, for num > 0.
RECURSIVE ShiftUp(_, _)
ShiftUp(num, den) == IF num >= den THEN 0 ELSE 1 + ShiftUp(2 * num, den)

\* a / b for integers a, b > 0.
FloatDiv(a, b) ==
    LET e == IF a >= b THEN ShiftDown(a, b) ELSE 0 - ShiftUp(a, b)
        num == IF e >= 0 THEN a ELSE a * Pow2(0 - e)
        den == IF e >= 0 THEN b * Pow2(e) ELSE b
        q == DivDigits(num, den, MantBits + 1)
    IN  RoundNearestEven(q.bits, q.sticky, e - MantBits)

\* n * x for an integer n > 0 and a double x.
FloatMulInt(n, x) ==
    LET p == MulDigits(x.bits, n, 0)
    IN  IF Len(p) > MantBits THEN RoundNearestEven(p, FALSE, x.exp)
        ELSE [bits |-> p, exp |-> x.exp]

\* x < y
FloatLess(x, y) ==
    LET ex == x.exp + Len(x.bits)
        ey == y.exp + Len(y.bits)
    IN  \/ ex < ey
        \/ /\ ex = ey
           /\ \E i \in 1..MantBits :
                 /\ x.bits[i] < y.bits[i]
                 /\ \A j \in 1..(i - 1) : x.bits[j] = y.bits[j]

\* max(x, y)
FloatMax(x, y) == IF FloatLess(x, y) THEN y ELSE x

\* int(x)
FloatToInt(x) ==
    IF x.exp >= 0 THEN BitsValue(x.bits) * Pow2(x.exp)
    ELSE IF Len(x.bits) + x.exp <= 0 THEN 0
    ELSE BitsValue(SubSeq(x.bits, 1, Len(x.bits) + x.exp))

\* ------------------------------------------------------ minimum image size

\* min_size of the "Ensure minimum image size" step
MinImageSize == 800

\* The size of the image after the step, from its size (w, h) before.
EnsureMinimumSize(w, h) ==
    IF w < MinImageSize \/ h < MinImageSize
    THEN LET ratio == FloatMax(FloatDiv(MinImageSize, w), FloatDiv(MinImageSize, h))
         IN  <<FloatToInt(FloatMulInt(w, ratio)), FloatToInt(FloatMulInt(h, ratio))>>
    ELSE <<w, h>>

\* ---------------------------------------------------- _calculate_font_size

\* int(n * p/100) for n >= 0: the code's int(img.height * 0.12) and the like.
\* (For every n in 0..20000 and each of the factors 0.04, 0.06, 0.12, 0.15
\* and 1.3 the double-precision product truncates to this same integer.)
IntPct(n, p) == (n * p) \div 100

\* initial_size, min_size and max_size, as hundredths of img.height
InitialPct == 12
MinPct == 6
MaxPct == 15
\* max_width_ratio, in hundredths
MaxWidthRatioPct == 80

\* A starting size taken from max_size alone.
FontStartMaxOnly(height) == IntPct(height, MaxPct)

\* font_size = min(initial_size, max_size)
FontStart(height) == Min(IntPct(height, InitialPct), IntPct(height, MaxPct))

\* min_size = int(img.height * 0.06)
FontFloor(height) == IntPct(height, MinPct)

\* A test that accepts a size when the text is at least as wide as allowed.
FontFitsInverted(width, s, size) ==
    GetLength(s, size) * 100 >= width * MaxWidthRatioPct * EmUnits

\* font.getlength(text) <= img.width * max_width_ratio, for the font at `size`
FontFits(width, s, size) ==
    GetLength(s, size) * 100 <= width * MaxWidthRatioPct * EmUnits

\* font_size -= 2
FontNext(size) == size - 2

\* A return without the floor.
FontResultNoFloor(size, min_size) == size

\* return max(font_size, min_size)
FontResult(size, min_size) == Max(size, min_size)

RECURSIVE FontLoop(_, _, _, _)
FontLoop(size, min_size, width, s) ==
    IF size > min_size /\ ~FontFits(width, s, size)
    THEN FontLoop(FontNext(size), min_size, width, s)
    ELSE FontResult(size, min_size)

\* _calculate_font_size(img, text)
CalculateFontSize(width, height, s) ==
    FontLoop(FontStart(height), FontFloor(height), width, s)

\* ------------------------------------------------------------- create_meme

\* A choice that takes the second of two texts of equal length.
LongestTextLastOnTie(top, bottom) == IF Len(bottom) >= Len(top) THEN bottom ELSE top

\* max(top_text, bottom_text, key=len): the first of the two unless the
\* second is strictly longer.
LongestText(top, bottom) == IF Len(bottom) > Len(top) THEN bottom ELSE top

\* margin = int(img.height * 0.06)
MarginPct == 6
Margin(height) == IntPct(height, MarginPct)

\* A text width that leaves the margin twice on either side.
MaxTextWidthWideMargin(width, height) == width - 4 * Margin(height)

\* max_text_width = img.width - (2 * margin)
MaxTextWidth(width, height) == width - 2 * Margin(height)

\* A line height of three times the font size.
LineHeightTriple(size) == 3 * size

\* line_height = int(font_size * 1.3)
LineHeightPct == 130
LineHeight(size) == IntPct(size, LineHeightPct)

\* stroke_width = max(2, int(font_size * 0.04))
StrokePct == 4
MinStroke == 2
StrokeWidth(size) == Max(MinStroke, IntPct(size, StrokePct))

\* x_position = (img.width - font.getlength(line)) // 2
XPosition(width, line, size) ==
    (width * EmUnits - GetLength(line, size)) \div (2 * EmUnits)

\* Drawing loops that add line_height before they draw a line.
DrawLinesAfterStep(ls, width, size, y, line_height, stroke) ==
    [i \in 1..Len(ls) |->
        [text |-> ls[i], size |-> size, x |-> XPosition(width, ls[i], size),
         y |-> y + i * line_height, stroke_width |-> stroke]]

\* The calls of _draw_text_with_outline made by one of the two drawing loops:
\* line i of ls is drawn with the font of that size at y + (i - 1) * line_height.
DrawLines(ls, width, size, y, line_height, stroke) ==
    [i \in 1..Len(ls) |->
        [text |-> ls[i], size |-> size, x |-> XPosition(width, ls[i], size),
         y |-> y + (i - 1) * line_height, stroke_width |-> stroke]]

\* `word` n times, joined by blanks.
RepeatWord(word, n) == Join([i \in 1..n |-> word])

\* Calls of create_meme one run of a script makes.
MaxTopics == 4

\* ------------------------------------------------------------ str methods

\* Characters str.strip() removes and str.split() separates words at.
Whitespace == {" ", "\n"}

\* s[i - 1:].startswith(sub)
OccursAt(s, sub, i) ==
    /\ i >= 1 /\ i + Len(sub) - 1 <= Len(s)
    /\ SubSeq(s, i, i + Len(sub) - 1) = sub

\* s.find(sub) + 1: the position of the first occurrence of sub, 0 for none.
Find(s, sub) ==
    LET hits == {i \in 1..Len(s) : OccursAt(s, sub, i)}
    IN  IF hits = {} THEN 0 ELSE CHOOSE i \in hits : \A j \in hits : i <= j

\* sub in s
Contains(s, sub) == Find(s, sub) # 0

\* s.strip()
Strip(s) ==
    LET keep == {i \in 1..Len(s) : s[i] \notin Whitespace}
    IN  IF keep = {} THEN <<>>
        ELSE SubSeq(s, CHOOSE i \in keep : \A j \in keep : i <= j,
                       CHOOSE i \in keep : \A j \in keep : i >= j)

\* s.replace(old, ""): every occurrence of old is removed, left to right.
RECURSIVE Remove(_, _)
Remove(s, old) ==
    LET i == Find(s, old)
    IN  IF i = 0 THEN s
        ELSE SubSeq(s, 1, i - 1) \o Remove(SubSeq(s, i + Len(old), Len(s)), old)

\* s.split(sep)
RECURSIVE SplitOn(_, _)
SplitOn(s, sep) ==
    LET i == Find(s, sep)
    IN  IF i = 0 THEN <<s>>
        ELSE <<SubSeq(s, 1, i - 1)>> \o SplitOn(SubSeq(s, i + Len(sep), Len(s)), sep)

\* s.split(sep, 1)
SplitOnce(s, sep) ==
    LET i == Find(s, sep)
    IN  IF i = 0 THEN <<s>>
        ELSE <<SubSeq(s, 1, i - 1), SubSeq(s, i + Len(sep), Len(s))>>

\* bool(s) of a string
NonEmpty(s) == s # <<>>

\* [line.strip() for line in text.split('\n') if line.strip()]
TextLines(raw) ==
    LET pieces == SplitOn(raw, <<"\n">>)
    IN  SelectSeq([i \in 1..Len(pieces) |-> Strip(pieces[i])], NonEmpty)

\* ' '.join(words[:mid]), ' '.join(words[mid:]) with mid = len(words) // 2
SplitAtMiddle(s) ==
    LET ws == Split(s)
        mid == Len(ws) \div 2
    IN  <<Join(SubSeq(ws, 1, mid)), Join(SubSeq(ws, mid + 1, Len(ws)))>>

\* ------------------------------- generate_meme_text, _process_generated_text

PremiseLabel == <<"P", "r", "e", "m", "i", "s", "e", ":">>
PunchlineLabel == <<"P", "u", "n", "c", "h", "l", "i", "n", "e", ":">>
CaptionLabel == <<"C", "a", "p", "t", "i", "o", "n", ":">>
NumberOne == <<"1", ".">>
NumberTwo == <<"2", ".">>
NumberThree == <<"3", ".">>
Quote == <<"\"">>
ErrorTop == <<"E", "r", "r", "o", "r", " ", "g", "e", "n", "e", "r", "a", "t", "i", "n", "g", " ", "m", "e", "m", "e", " ", "t", "e", "x", "t", ".">>
ErrorBottom == <<"P", "l", "e", "a", "s", "e", " ", "t", "r", "y", " ", "a", "g", "a", "i", "n", ".">>
DefaultPremise == <<"M", "e", "m", "e", " ", "g", "e", "n", "e", "r", "a", "t", "i", "o", "n", " ", "e", "r", "r", "o", "r">>
DefaultPunchline == <<"P", "l", "e", "a", "s", "e", " ", "t", "r", "y", " ", "a", "g", "a", "i", "n">>

\* The pair generate_meme_text returns from its except clause.
FallbackCaptions == <<ErrorTop, ErrorBottom>>

RemoveLabels(s) == Remove(Remove(Remove(s, PremiseLabel), PunchlineLabel), CaptionLabel)
RemoveNumbers(s) == Remove(Remove(Remove(s, NumberOne), NumberTwo), NumberThree)

\* The two assignments to line at the head of the first loop.
CleanLine(line) == Strip(RemoveNumbers(Strip(RemoveLabels(line))))

\* The first loop over lines: st is (premise, punchline, left the loop).
RECURSIVE PickLines(_, _, _)
PickLines(ls, i, st) ==
    IF i > Len(ls) \/ st[3] THEN st
    ELSE LET line == CleanLine(ls[i])
         IN  IF st[1] = <<>> /\ line # <<>>
             THEN PickLines(ls, i + 1, <<line, st[2], FALSE>>)
             ELSE IF st[2] = <<>> /\ line # <<>> /\ line # st[1]
             THEN PickLines(ls, i + 1, <<st[1], line, TRUE>>)
             ELSE PickLines(ls, i + 1, st)

\* for separator in ['. ', '? ', '! ', '" ', '" ']
MemeBotSeparators == <<<<".", " ">>, <<"?", " ">>, <<"!", " ">>, <<"\"", " ">>, <<"\"", " ">>>>

\* The body of the separator loop for one separator found in text.
SplitAtSeparator(raw, sep) ==
    LET parts == SplitOnce(raw, sep)
    IN  <<Strip(Remove(Remove(Strip(parts[1]), PremiseLabel), NumberOne)),
          Strip(Remove(Remove(Strip(SplitOn(parts[2], <<".">>)[1]),
                              PunchlineLabel), NumberTwo))>>

\* The separator loop: the first separator of the list that occurs in text
\* decides; st is kept when none occurs.
BySeparator(raw, seps, st) ==
    LET found == {k \in 1..Len(seps) : Contains(raw, seps[k])}
    IN  IF found = {} THEN st
        ELSE SplitAtSeparator(raw, seps[CHOOSE k \in found : \A j \in found : k <= j])

\* clean_line of the final fallback (the labels are removed without a strip).
MeaningfulLine(line) == Strip(RemoveNumbers(RemoveLabels(line)))

\* len(clean_line) > 5
MeaningfulLen == 5

IsMeaningful(s) == s # <<>> /\ Len(s) > MeaningfulLen

\* The final fallback on the meaningful lines.
ByMeaningfulLines(ls, st) ==
    LET meaningful_lines ==
            SelectSeq([i \in 1..Len(ls) |-> MeaningfulLine(ls[i])], IsMeaningful)
    IN  IF Len(meaningful_lines) >= 2
        THEN <<meaningful_lines[1], meaningful_lines[2]>>
        ELSE IF Len(meaningful_lines) = 1
        THEN SplitAtMiddle(meaningful_lines[1])
        ELSE st

\* premise.replace('"', '').replace('"', '').replace('"', '').strip()
Unquote(s) == Strip(Remove(Remove(Remove(s, Quote), Quote), Quote))

\* A premise returned as parsed, empty or not.
EnsurePremiseAsParsed(s) == s

\* if not premise: premise = "Meme generation error"
EnsurePremise(s) == IF s = <<>> THEN DefaultPremise ELSE s

\* if not punchline: punchline = "Please try again"
EnsurePunchline(s) == IF s = <<>> THEN DefaultPunchline ELSE s

Unparsed(st) == st[1] = <<>> \/ st[2] = <<>>

\* _process_generated_text of meme-bot.
ProcessGeneratedText(raw) ==
    LET ls == TextLines(raw)
        picked == PickLines(ls, 1, <<<<>>, <<>>, FALSE>>)
        first == <<picked[1], picked[2]>>
        second == IF Unparsed(first) THEN BySeparator(raw, MemeBotSeparators, first)
                  ELSE first
        third == IF Unparsed(second) THEN ByMeaningfulLines(ls, second) ELSE second
    IN  <<EnsurePremise(Unquote(third[1])), EnsurePunchline(Unquote(third[2]))>>

\* for separator in ['. ', '? ', '! ', '| ']
TwitterSeparators == <<<<".", " ">>, <<"?", " ">>, <<"!", " ">>, <<"|", " ">>>>

\* _process_generated_text of twitter-meme-bot. lines[0] of an empty list
\* raises IndexError: "raise" stands for the exception.
TwitterProcessGeneratedText(raw) ==
    LET ls == TextLines(raw)
    IN  IF Len(ls) = 1
        THEN LET found == {k \in 1..Len(TwitterSeparators) :
                               Contains(ls[1], TwitterSeparators[k])}
             IN  IF found # {}
                 THEN LET parts == SplitOnce(ls[1], TwitterSeparators[
                                       CHOOSE k \in found : \A j \in found : k <= j])
                      IN  [kind |-> "return",
                           pair |-> <<Strip(parts[1]), Strip(parts[2])>>]
                 ELSE [kind |-> "return", pair |-> SplitAtMiddle(ls[1])]
        ELSE IF Len(ls) = 0
        THEN [kind |-> "raise", pair |-> <<>>]
        ELSE [kind |-> "return", pair |-> <<ls[1], ls[2]>>]

\* generate_meme_text of twitter-meme-bot from the model's reply on: the reply
\* is stripped and parsed, and any exception gives the fallback pair.
TwitterGenerateMemeText(content) ==
    LET out == TwitterProcessGeneratedText(Strip(content))
    IN  IF out.kind = "raise" THEN FallbackCaptions ELSE out.pair

\* generate_meme_text of meme-bot from the model's reply on.
GenerateMemeText(content) == ProcessGeneratedText(Strip(content))

\* ---------------------------------------------------------- the output path

\* self.output_dir
OutputDir == <<"m", "e", "m", "e", "s">>

PathSeparator == <<"/">>
ParentComponent == <<".", ".">>

DigitChars == <<"0", "1", "2", "3", "4", "5", "6", "7", "8", "9">>

\* %H, %M and %S of strftime: a number below 100 as two digits.
TwoDigits(n) == <<DigitChars[(n \div 10) + 1], DigitChars[(n % 10) + 1]>>

\* The day the clock of the model runs in, as %Y%m%d.
Today == <<"2", "0", "2", "4", "0", "1", "0", "1">>

SecondsPerMinute == 60
MinutesPerHour == 60

\* datetime.now().strftime("%Y%m%d_%H%M%S") for the second t of the day.
FormatTimestamp(t) ==
    Today \o <<"_">> \o TwoDigits(t \div (SecondsPerMinute * MinutesPerHour))
          \o TwoDigits((t \div SecondsPerMinute) % MinutesPerHour)
          \o TwoDigits(t % SecondsPerMinute)

\* s.replace(' ', '_')
SpacesToUnderscores(s) == [i \in 1..Len(s) |-> IF s[i] = " " THEN "_" ELSE s[i]]

\* A slug made of the whole topic.
TopicSlugWholeTopic(topic) == SpacesToUnderscores(topic)

\* topic.split()[0].replace(' ', '_'); the topic has a word.
TopicSlug(topic) == SpacesToUnderscores(Split(topic)[1])

\* f"{self.output_dir}/meme_{slug}_{timestamp}.png"
OutputPath(topic, t) ==
    OutputDir \o <<"/", "m", "e", "m", "e", "_">> \o TopicSlug(topic) \o <<"_">> \o FormatTimestamp(t) \o <<".", "p", "n", "g">>

\* The directory a path names a file in: the path up to its last separator.
ParentDir(path) ==
    LET seps == {i \in 1..Len(path) : path[i] = "/"}
    IN  IF seps = {} THEN <<>>
        ELSE SubSeq(path, 1, (CHOOSE i \in seps : \A j \in seps : i >= j) - 1)

\* _setup_directories makes the output directory; nothing makes another one.
ParentExists(path) == ParentDir(path) = OutputDir

\* ---------------------------------------------------- app.py: /api/generate

\* The fallback topic of the handler.
CustomMeme == <<"C", "u", "s", "t", "o", "m", " ", "M", "e", "m", "e">>

\* A call that takes the custom variant when either custom text is given.
UseCustomTextEither(custom_top, custom_bottom) == custom_top # <<>> \/ custom_bottom # <<>>

\* if custom_top_text and custom_bottom_text:
UseCustomText(custom_top, custom_bottom) == custom_top # <<>> /\ custom_bottom # <<>>

NoCall == [variant |-> "rejected", topic |-> <<>>, top_text |-> <<>>,
           bottom_text |-> <<>>, template_url |-> <<>>]

\* generate_meme from the parsed body on: the call it makes on the generator,
\* or none when it answers 400.
Dispatch(data) ==
    LET topic == Strip(data.topic)
        custom_top_text == Strip(data.custom_top_text)
        custom_bottom_text == Strip(data.custom_bottom_text)
        template_url == Strip(data.template_url)
    IN  IF data.empty THEN NoCall
        ELSE IF topic = <<>> /\ ~(custom_top_text # <<>> /\ custom_bottom_text # <<>>)
        THEN NoCall
        ELSE IF UseCustomText(custom_top_text, custom_bottom_text)
        THEN [variant |-> "custom",
              topic |-> IF topic # <<>> THEN topic ELSE CustomMeme,
              top_text |-> custom_top_text, bottom_text |-> custom_bottom_text,
              template_url |-> template_url]
        ELSE [variant |-> "ai", topic |-> topic, top_text |-> <<>>,
              bottom_text |-> <<>>, template_url |-> <<>>]

\* ------------------------------------ results of create_meme and of its kin

\* None, where a string is expected
None == <<>>

NoOutcome ==
    [kind |-> "none", success |-> FALSE, error |-> "", filename |-> None,
     top_text |-> <<>>, bottom_text |-> <<>>]

\* {"success": False, "error": msg, "filename": None}
FailureDict(msg) ==
    [kind |-> "returned", success |-> FALSE, error |-> msg, filename |-> None,
     top_text |-> <<>>, bottom_text |-> <<>>]

\* {"success": True, "filename": filename, "top_text": ..., "bottom_text": ...}
SuccessDict(filename, top, bottom) ==
    [kind |-> "returned", success |-> TRUE, error |-> "", filename |-> filename,
     top_text |-> top, bottom_text |-> bottom]

\* An exception that leaves the method.
Raised(exc) ==
    [kind |-> "raised", success |-> FALSE, error |-> exc, filename |-> None,
     top_text |-> <<>>, bottom_text |-> <<>>]

\* jsonify({"error": msg}), status: an answer of the handler without a call.
HttpError(msg) ==
    [kind |-> "http", success |-> FALSE, error |-> msg, filename |-> None,
     top_text |-> <<>>, bottom_text |-> <<>>]

\* An except clause of generate_meme_text that lets the exception through.
CaptionSourceUncaught(raised, content) ==
    IF raised THEN [kind |-> "raise", pair |-> <<>>]
    ELSE [kind |-> "return", pair |-> GenerateMemeText(content)]

\* generate_meme_text of meme-bot: the call to the model raises or replies.
CaptionSource(raised, content) ==
    IF raised THEN [kind |-> "return", pair |-> FallbackCaptions]
    ELSE [kind |-> "return", pair |-> GenerateMemeText(content)]

\* A create_meme that goes on to the download whatever the template is.
AfterTemplateAlwaysOn(template_url) == "download"

\* if not template_url: return {...}
AfterTemplate(template_url) == IF template_url = <<>> THEN "done" ELSE "download"

\* ------------------------------------------------------------------ state

VARIABLES
    \* _wrap_text: its arguments, its locals and its position
    text, font, max_width, words, word_index, wrap, lines, wrap_pc,
    \* _calculate_font_size: its arguments, its locals, its result and its position
    fs_width, fs_height, fs_text, font_size, min_size, fs_result, fs_pc,
    \* the minimum-size step on its own: the image size and the step's position
    norm_size, norm_first, norm_pc,
    \* create_meme / create_meme_with_custom_text: the image size, the captions,
    \* the layout parameters, the calls of _draw_text_with_outline and the result
    cm_pc, img, top_text, bottom_text, cm_font_size, margin, max_text_width,
    line_height, stroke_width, y_position, top_drawn, bottom_drawn, cm_result,
    \* the caption parsers: the model's reply, the pair returned, the bot whose
    \* parser ran and the position
    raw_text, cap_pair, cap_bot, cap_pc,
    \* one request from the handler or a direct call down to the returned dict:
    \* the caller, the request body, the variant and the arguments of the call
    co_caller, co_request, co_variant, co_topic, co_top_arg, co_bottom_arg, co_url_arg,
    \* the position, the listing, the passes of the selection loop and what
    \* became of the template
    co_pc, co_memes, co_picks, co_template,
    \* the captions and whether the call to the model raised
    co_top_text, co_bottom_text, co_caption_raised,
    \* downloads tried, calls of the caption source, writes to the output file
    co_downloads, co_caption_calls, co_writes,
    \* caption blocks rendered, timestamp, filename, state of the output file
    \* on disk, and what the method returned or raised
    co_rendered, co_timestamp, co_filename, co_file, co_result,
    \* compositions that share the output directory, from the rendered image
    \* on: topic, position, timestamp, filename and result of each, the clock,
    \* the files of the directory with their writers, the writers in order
    cc_topic, cc_pc, cc_timestamp, cc_filename, cc_result, cc_clock, cc_files, cc_saves,
    \* the lazily initialised generator of app.py: the global (0 for None), the
    \* thread that assigned it, whether the fonts directory holds a font, the
    \* constructions completed, whether a set global was assigned again, the
    \* font_path sources of the instances completed
    ig_generator, ig_owner, ig_font_file, ig_constructed, ig_replaced, ig_fonts,
    \* each handler thread: position, endpoint, font_path of the instance it
    \* constructs, what initialize_generator returned, status of the response,
    \* what was called on meme_generator, requests served
    ig_pc, ig_endpoint, ig_font_path, ig_init, ig_status, ig_called, ig_requests,
    \* /api/download and /api/view: the endpoint, the filename of the URL, the
    \* names of the files in the memes directory, safe_filename, file_path, the
    \* path handed to send_file, the status of the response and the position
    sv_endpoint, sv_filename, sv_memes, sv_safe, sv_path, sv_sent, sv_status, sv_pc,
    \* the batch and the interactive script: which script runs, its position,
    \* the number of calls of create_meme made, what each call did, the topics
    \* in successful_memes and in failed_memes, and the messages printed
    bt_script, bt_pc, bt_calls, bt_outcomes, bt_successful, bt_failed, bt_printed

wrapVars == <<text, font, max_width, words, word_index, wrap, lines, wrap_pc>>
fontVars == <<fs_width, fs_height, fs_text, font_size, min_size, fs_result, fs_pc>>
normVars == <<norm_size, norm_first, norm_pc>>
layoutVars == <<cm_font_size, margin, max_text_width, line_height, stroke_width>>
drawVars == <<y_position, top_drawn, bottom_drawn>>
cmVars == <<cm_pc, img, top_text, bottom_text, layoutVars, drawVars, cm_result>>
baseVars == <<wrapVars, fontVars, normVars, cmVars>>
captionVars == <<raw_text, cap_pair, cap_bot, cap_pc>>
coArgs == <<co_caller, co_request, co_variant, co_topic, co_top_arg, co_bottom_arg, co_url_arg>>
coTemplate == <<co_memes, co_picks, co_template>>
coCaption == <<co_top_text, co_bottom_text, co_caption_raised>>
coCount == <<co_downloads, co_caption_calls, co_writes>>
coOut == <<co_rendered, co_timestamp, co_filename, co_file>>
composeVars == <<coArgs, coTemplate, coCaption, coCount, coOut, co_pc, co_result>>
concVars == <<cc_topic, cc_pc, cc_timestamp, cc_filename, cc_result, cc_clock, cc_files, cc_saves>>
midVars == <<captionVars, composeVars, concVars>>
igShared == <<ig_generator, ig_owner, ig_font_file, ig_constructed, ig_replaced, ig_fonts>>
igLocal == <<ig_pc, ig_endpoint, ig_font_path, ig_init, ig_status, ig_called, ig_requests>>
initVars == <<igShared, igLocal>>
serveVars == <<sv_endpoint, sv_filename, sv_memes, sv_safe, sv_path, sv_sent, sv_status, sv_pc>>
batchVars == <<bt_script, bt_pc, bt_calls, bt_outcomes, bt_successful, bt_failed, bt_printed>>
lateVars == <<initVars, serveVars, batchVars>>
extVars == <<captionVars, composeVars, concVars, lateVars>>
besideInit == <<baseVars, midVars, serveVars, batchVars>>
besideServe == <<baseVars, midVars, initVars, batchVars>>
besideBatch == <<baseVars, midVars, initVars, serveVars>>
vars == <<wrapVars, fontVars, normVars, cmVars, extVars>>

\* Font sizes _wrap_text is run with.
WrapFontSizes == {4, 6}

WrapIdle ==
    /\ text = <<>> /\ font = 0 /\ max_width = 0 /\ words = <<>>
    /\ word_index = 0 /\ wrap = WrapStart /\ lines = <<>> /\ wrap_pc = "idle"

\* (width, height) of the images _calculate_font_size is run with.
FontDims == {<<800, 2400>>, <<800, 2410>>, <<1000, 800>>, <<1000, 3000>>}

FontIdle ==
    /\ fs_width = 0 /\ fs_height = 0 /\ fs_text = <<>> /\ font_size = 0
    /\ min_size = 0 /\ fs_result = 0 /\ fs_pc = "idle"

NormIdle == norm_size = <<0, 0>> /\ norm_first = <<0, 0>> /\ norm_pc = "idle"

NoResult == [success |-> FALSE, error |-> "none"]

CmIdle ==
    /\ cm_pc = "idle" /\ img = <<0, 0>> /\ top_text = <<>> /\ bottom_text = <<>>
    /\ cm_font_size = 0 /\ margin = 0 /\ max_text_width = 0 /\ line_height = 0
    /\ stroke_width = 0 /\ y_position = 0 /\ top_drawn = <<>> /\ bottom_drawn = <<>>
    /\ cm_result = NoResult

CaptionIdle ==
    raw_text = <<>> /\ cap_pair = <<>> /\ cap_bot = "none" /\ cap_pc = "idle"

\* The body of a request: JSON fields as sent, and whether the object is empty.
NoRequest ==
    [empty |-> TRUE, topic |-> <<>>, custom_top_text |-> <<>>,
     custom_bottom_text |-> <<>>, template_url |-> <<>>]

ComposeFresh ==
    /\ co_memes = <<>> /\ co_picks = 0 /\ co_template = "none"
    /\ co_caption_raised = FALSE
    /\ co_downloads = 0 /\ co_caption_calls = 0 /\ co_writes = 0
    /\ co_rendered = 0 /\ co_timestamp = 0 /\ co_filename = None /\ co_file = "none"
    /\ co_result = NoOutcome

ComposeIdle ==
    /\ co_caller = "none" /\ co_request = NoRequest /\ co_variant = "none"
    /\ co_topic = <<>> /\ co_top_arg = <<>> /\ co_bottom_arg = <<>> /\ co_url_arg = None
    /\ co_top_text = <<>> /\ co_bottom_text = <<>>
    /\ co_pc = "idle" /\ ComposeFresh

\* The compositions that run side by side.
Procs == {1, 2}

ConcIdle ==
    /\ cc_topic = [p \in Procs |-> <<>>] /\ cc_pc = [p \in Procs |-> "idle"]
    /\ cc_timestamp = [p \in Procs |-> 0] /\ cc_filename = [p \in Procs |-> None]
    /\ cc_result = [p \in Procs |-> NoOutcome]
    /\ cc_clock = 0 /\ cc_files = <<>> /\ cc_saves = <<>>

\* The handler threads of the server.
Threads == {1, 2}

\* meme_generator = None
NoGenerator == 0

InitIdle ==
    /\ ig_generator = NoGenerator /\ ig_owner = 0 /\ ig_font_file = FALSE
    /\ ig_constructed = 0 /\ ig_replaced = FALSE /\ ig_fonts = {}
    /\ ig_pc = [t \in Threads |-> "idle"] /\ ig_endpoint = [t \in Threads |-> "none"]
    /\ ig_font_path = [t \in Threads |-> "none"] /\ ig_init = [t \in Threads |-> "none"]
    /\ ig_status = [t \in Threads |-> 0] /\ ig_called = [t \in Threads |-> "none"]
    /\ ig_requests = [t \in Threads |-> 0]

BaseIdle == WrapIdle /\ FontIdle /\ NormIdle /\ CmIdle

MidIdle == CaptionIdle /\ ComposeIdle /\ ConcIdle

ServeIdle ==
    /\ sv_endpoint = "none" /\ sv_filename = <<>> /\ sv_memes = {} /\ sv_safe = <<>>
    /\ sv_path = <<>> /\ sv_sent = <<>> /\ sv_status = 0 /\ sv_pc = "idle"

BatchIdle ==
    /\ bt_script = "none" /\ bt_pc = "idle" /\ bt_calls = 0 /\ bt_outcomes = <<>>
    /\ bt_successful = <<>> /\ bt_failed = <<>> /\ bt_printed = <<>>

LateIdle == InitIdle /\ ServeIdle /\ BatchIdle

ExtIdle == MidIdle /\ LateIdle

\* ------------------------------------------------- _wrap_text, step by step

InitWrap ==
    /\ text \in StringsUpTo(MaxLen)
    /\ font \in WrapFontSizes
    /\ max_width \in 0..MaxWrapWidth
    /\ words = <<>> /\ word_index = 0 /\ wrap = WrapStart /\ lines = <<>>
    /\ wrap_pc = "split"
    /\ FontIdle /\ NormIdle /\ CmIdle /\ ExtIdle

\* words = text.split(); lines = []; current_line = []
WrapSplit ==
    /\ wrap_pc = "split"
    /\ words' = Split(text)
    /\ word_index' = 1
    /\ wrap' = WrapStart
    /\ wrap_pc' = "loop"
    /\ UNCHANGED <<text, font, max_width, lines, fontVars, normVars, cmVars, extVars>>

\* for word in words: ...
WrapNextWord ==
    /\ wrap_pc = "loop"
    /\ word_index <= Len(words)
    /\ wrap' = WrapWord(wrap, words[word_index], font, max_width)
    /\ word_index' = word_index + 1
    /\ UNCHANGED <<text, font, max_width, words, lines, wrap_pc, fontVars, normVars, cmVars, extVars>>

\* if current_line: lines.append(...); return lines
WrapReturn ==
    /\ wrap_pc = "loop"
    /\ word_index > Len(words)
    /\ lines' = WrapFinish(wrap)
    /\ wrap_pc' = "done"
    /\ UNCHANGED <<text, font, max_width, words, word_index, wrap, fontVars, normVars, cmVars, extVars>>

NextWrap == WrapSplit \/ WrapNextWord \/ WrapReturn

SpecWrap == InitWrap /\ [][NextWrap]_vars

\* --------------------------------------- _calculate_font_size, step by step

InitFont ==
    /\ \E d \in FontDims : fs_width = d[1] /\ fs_height = d[2]
    /\ fs_text \in StringsUpTo(MaxLen)
    /\ font_size = 0 /\ min_size = 0 /\ fs_result = 0
    /\ fs_pc = "start"
    /\ WrapIdle /\ NormIdle /\ CmIdle /\ ExtIdle

\* initial_size, min_size, max_size; font_size = min(initial_size, max_size)
FontSetup ==
    /\ fs_pc = "start"
    /\ font_size' = FontStart(fs_height)
    /\ min_size' = FontFloor(fs_height)
    /\ fs_pc' = "loop"
    /\ UNCHANGED <<fs_width, fs_height, fs_text, fs_result, wrapVars, normVars, cmVars, extVars>>

\* one pass of the while loop: break when the text fits, else font_size -= 2
FontTry ==
    /\ fs_pc = "loop"
    /\ font_size > min_size
    /\ IF FontFits(fs_width, fs_text, font_size)
       THEN fs_pc' = "return" /\ font_size' = font_size
       ELSE fs_pc' = "loop" /\ font_size' = FontNext(font_size)
    /\ UNCHANGED <<fs_width, fs_height, fs_text, min_size, fs_result, wrapVars, normVars, cmVars, extVars>>

\* return max(font_size, min_size)
FontReturn ==
    /\ \/ fs_pc = "return"
       \/ fs_pc = "loop" /\ ~(font_size > min_size)
    /\ fs_result' = FontResult(font_size, min_size)
    /\ fs_pc' = "done"
    /\ UNCHANGED <<fs_width, fs_height, fs_text, font_size, min_size, wrapVars, normVars, cmVars, extVars>>

NextFont == FontSetup \/ FontTry \/ FontReturn

SpecFont == InitFont /\ [][NextFont]_vars

\* ------------------------------------------ the minimum-size step by itself

\* Sizes (width, height) of the images the step is applied to.
NormWidths == {97, 400, 539, 796, 799, 800, 1000}
NormHeights == {97, 300, 700, 799, 800, 2000}

InitNorm ==
    /\ norm_size \in NormWidths \X NormHeights
    /\ norm_first = <<0, 0>>
    /\ norm_pc = "opened"
    /\ WrapIdle /\ FontIdle /\ CmIdle /\ ExtIdle

\* The step applied to an image as it was opened.
NormApply ==
    /\ norm_pc = "opened"
    /\ norm_first' = EnsureMinimumSize(norm_size[1], norm_size[2])
    /\ norm_pc' = "once"
    /\ UNCHANGED <<norm_size, wrapVars, fontVars, cmVars, extVars>>

\* The step applied to its own output.
NormApplyAgain ==
    /\ norm_pc = "once"
    /\ norm_size' = EnsureMinimumSize(norm_first[1], norm_first[2])
    /\ norm_pc' = "twice"
    /\ UNCHANGED <<norm_first, wrapVars, fontVars, cmVars, extVars>>

NextNorm == NormApply \/ NormApplyAgain

SpecNorm == InitNorm /\ [][NextNorm]_vars

\* ---------------------------- create_meme and create_meme_with_custom_text

\* Sizes (width, height) of the template images that are downloaded.
TemplateSizes ==
    {<<1000, 800>>, <<400, 300>>, <<97, 97>>, <<800, 2400>>,
     <<1000, 1000>>, <<1200, 833>>, <<900, 1250>>, <<800, 2017>>}

\* The words captions are made of: one narrow letter, a word of four wide
\* letters and a word of eight wide letters.
CaptionWords == {<<"i">>, <<"W", "W", "W", "W">>,
                 <<"W", "W", "W", "W", "W", "W", "W", "W">>}

\* The captions: generated by generate_meme_text or supplied by the caller.
\* A caller may also supply a caption of blanks only.
BlankCaptions == {<<" ">>, <<" ", " ">>}
Captions ==
    {RepeatWord(w, n) : w \in CaptionWords, n \in 0..MaxWords} \cup BlankCaptions

Failure(msg) == [success |-> FALSE, error |-> msg]
Success == [success |-> TRUE, error |-> ""]

Init ==
    /\ cm_pc = "template" /\ img = <<0, 0>> /\ top_text = <<>> /\ bottom_text = <<>>
    /\ cm_font_size = 0 /\ margin = 0 /\ max_text_width = 0 /\ line_height = 0
    /\ stroke_width = 0 /\ y_position = 0 /\ top_drawn = <<>> /\ bottom_drawn = <<>>
    /\ cm_result = NoResult
    /\ WrapIdle /\ FontIdle /\ NormIdle /\ ExtIdle

\* get_meme_template() returned (None, None, None): the early return.
TemplateFails ==
    /\ cm_pc = "template"
    /\ cm_result' = Failure("Failed to fetch meme template")
    /\ cm_pc' = "done"
    /\ UNCHANGED <<img, top_text, bottom_text, layoutVars, drawVars,
                   wrapVars, fontVars, normVars, extVars>>

\* A template URL is at hand (from get_meme_template or from the caller).
TemplateFound ==
    /\ cm_pc = "template"
    /\ cm_pc' = "download"
    /\ UNCHANGED <<img, top_text, bottom_text, layoutVars, drawVars, cm_result,
                   wrapVars, fontVars, normVars, extVars>>

\* requests.get, raise_for_status or Image.open raises: caught by the except
\* clause of create_meme.
DownloadFails ==
    /\ cm_pc = "download"
    /\ cm_result' = Failure("download")
    /\ cm_pc' = "done"
    /\ UNCHANGED <<img, top_text, bottom_text, layoutVars, drawVars,
                   wrapVars, fontVars, normVars, extVars>>

\* img = Image.open(BytesIO(response.content))
Download ==
    /\ cm_pc = "download"
    /\ img' \in TemplateSizes
    /\ cm_pc' = "min_size"
    /\ UNCHANGED <<top_text, bottom_text, layoutVars, drawVars, cm_result,
                   wrapVars, fontVars, normVars, extVars>>

\* Ensure minimum image size
EnsureMinimum ==
    /\ cm_pc = "min_size"
    /\ img' = EnsureMinimumSize(img[1], img[2])
    /\ cm_pc' = "caption"
    /\ UNCHANGED <<top_text, bottom_text, layoutVars, drawVars, cm_result,
                   wrapVars, fontVars, normVars, extVars>>

\* top_text, bottom_text = self.generate_meme_text(topic, custom_context), or
\* the two texts the caller of create_meme_with_custom_text supplied.
TakeCaptions ==
    /\ cm_pc = "caption"
    /\ top_text' \in Captions
    /\ bottom_text' \in Captions
    /\ cm_pc' = "font"
    /\ UNCHANGED <<img, layoutVars, drawVars, cm_result, wrapVars, fontVars, normVars, extVars>>

\* ImageFont.truetype raises in _calculate_font_size or in create_meme.
FontLoadFails ==
    /\ cm_pc = "font"
    /\ cm_result' = Failure("Cannot load font for meme generation")
    /\ cm_pc' = "done"
    /\ UNCHANGED <<img, top_text, bottom_text, layoutVars, drawVars,
                   wrapVars, fontVars, normVars, extVars>>

\* font_size = self._calculate_font_size(img, longest_text) and the layout
\* parameters.
Layout ==
    /\ cm_pc = "font"
    /\ LET size == CalculateFontSize(img[1], img[2], LongestText(top_text, bottom_text))
       IN  /\ cm_font_size' = size
           /\ margin' = Margin(img[2])
           /\ max_text_width' = MaxTextWidth(img[1], img[2])
           /\ line_height' = LineHeight(size)
           /\ stroke_width' = StrokeWidth(size)
    /\ cm_pc' = "top"
    /\ UNCHANGED <<img, top_text, bottom_text, drawVars, cm_result,
                   wrapVars, fontVars, normVars, extVars>>

\* Draw top text
DrawTop ==
    /\ cm_pc = "top"
    /\ LET ls == WrapText(top_text, cm_font_size, max_text_width)
       IN  /\ top_drawn' = DrawLines(ls, img[1], cm_font_size, margin,
                                     line_height, stroke_width)
           /\ y_position' = margin + Len(ls) * line_height
    /\ cm_pc' = "bottom"
    /\ UNCHANGED <<img, top_text, bottom_text, layoutVars, bottom_drawn, cm_result,
                   wrapVars, fontVars, normVars, extVars>>

\* Draw bottom text
DrawBottom ==
    /\ cm_pc = "bottom"
    /\ LET bottom_lines == WrapText(bottom_text, cm_font_size, max_text_width)
           y == img[2] - margin - Len(bottom_lines) * line_height
       IN  /\ bottom_drawn' = DrawLines(bottom_lines, img[1], cm_font_size, y,
                                        line_height, stroke_width)
           /\ y_position' = y + Len(bottom_lines) * line_height
    /\ cm_pc' = "save"
    /\ UNCHANGED <<img, top_text, bottom_text, layoutVars, top_drawn, cm_result,
                   wrapVars, fontVars, normVars, extVars>>

\* img.save(filename) raises: caught by the except clause.
SaveFails ==
    /\ cm_pc = "save"
    /\ cm_result' = Failure("save")
    /\ cm_pc' = "done"
    /\ UNCHANGED <<img, top_text, bottom_text, layoutVars, drawVars,
                   wrapVars, fontVars, normVars, extVars>>

\* img.save(filename); return {"success": True, ...}
Save ==
    /\ cm_pc = "save"
    /\ cm_result' = Success
    /\ cm_pc' = "done"
    /\ UNCHANGED <<img, top_text, bottom_text, layoutVars, drawVars,
                   wrapVars, fontVars, normVars, extVars>>

Next ==
    \/ TemplateFails \/ TemplateFound \/ DownloadFails \/ Download
    \/ EnsureMinimum \/ TakeCaptions \/ FontLoadFails \/ Layout
    \/ DrawTop \/ DrawBottom \/ SaveFails \/ Save

Spec == Init /\ [][Next]_vars

\* ------------------------------------------- the caption parsers by themselves

\* Lines the model's reply is made of: empty, blank, a label alone, a quote
\* alone, one short word, labelled lines, a line equal to a labelled line
\* without its label, lines with a separator inside and in front, a number.
RawLines ==
    {<<>>,
     <<" ">>,
     <<"P", "r", "e", "m", "i", "s", "e", ":">>,
     <<"\"">>,
     <<"H", "e", "l", "l", "o">>,
     <<"P", "r", "e", "m", "i", "s", "e", ":", " ", "M", "o", "n", "d", "a", "y", " ", "a", "a", " ", "g", "a", "y", "a">>,
     <<"P", "u", "n", "c", "h", "l", "i", "n", "e", ":", " ", "C", "h", "a", "i", " ", "l", "a", "o">>,
     <<"M", "o", "n", "d", "a", "y", " ", "a", "a", " ", "g", "a", "y", "a">>,
     <<"W", "o", "w", ".", " ", "N", "i", "c", "e", " ", "o", "n", "e">>,
     <<".", " ", "N", "i", "c", "e">>,
     <<"K", "y", "a", " ", "|", " ", "S", "c", "e", "n", "e">>,
     <<"1", ".">>}

\* ls[1] + "\n" + ls[2] + ...
RECURSIVE JoinLines(_)
JoinLines(ls) ==
    IF ls = <<>> THEN <<>>
    ELSE IF Len(ls) = 1 THEN ls[1]
    ELSE ls[1] \o <<"\n">> \o JoinLines(Tail(ls))

\* The replies of the model: up to MaxRawLines lines.
RawTexts == {JoinLines(ls) : ls \in UNION {[1..n -> RawLines] : n \in 0..MaxRawLines}}

InitCaption ==
    /\ raw_text \in RawTexts
    /\ cap_pair = <<>> /\ cap_bot = "none" /\ cap_pc = "reply"
    /\ BaseIdle /\ ComposeIdle /\ ConcIdle /\ LateIdle

\* meme-bot: self._process_generated_text(text)
MemeBotProcess ==
    /\ cap_pc = "reply"
    /\ cap_pair' = ProcessGeneratedText(raw_text)
    /\ cap_bot' = "meme-bot"
    /\ cap_pc' = "done"
    /\ UNCHANGED <<raw_text, baseVars, composeVars, concVars, lateVars>>

\* twitter-meme-bot: generate_meme_text from the reply on
TwitterGenerate ==
    /\ cap_pc = "reply"
    /\ cap_pair' = TwitterGenerateMemeText(raw_text)
    /\ cap_bot' = "twitter-meme-bot"
    /\ cap_pc' = "done"
    /\ UNCHANGED <<raw_text, baseVars, composeVars, concVars, lateVars>>

NextCaption == MemeBotProcess \/ TwitterGenerate

SpecCaption == InitCaption /\ [][NextCaption]_vars

\* --------------------- one request: generate_meme, create_meme and its kin

\* Topics of requests and calls: none, blank, one word, two words, a first
\* word with a path separator, a first word with a parent-directory component.
Topics == {<<>>, <<" ">>, <<"c", "a", "t", "s">>, <<"c", "a", "t", "s", " ", "d", "o", "g", "s">>, <<"a", "/", "b", " ", "c">>, <<"/", ".", ".", "/", "x">>}

\* Custom texts of requests.
CustomTexts == {<<>>, <<" ">>, <<" ", "y", "o", " ">>, <<"h", "i">>}

\* Template URLs of requests: none or one.
TemplateUrls == {<<>>, <<"u">>}

Requests ==
    {NoRequest} \cup
    [empty : {FALSE}, topic : Topics, custom_top_text : CustomTexts,
     custom_bottom_text : CustomTexts, template_url : TemplateUrls]

AllKeys == {"url", "width", "height"}

\* Entries of the listing: landscape, portrait, lacking one of the keys, and
\* landscape with an empty url.
TemplateEntries ==
    {[keys |-> AllKeys, width |-> 1000, height |-> 800, url |-> <<"t">>],
     [keys |-> AllKeys, width |-> 600, height |-> 900, url |-> <<"t">>],
     [keys |-> AllKeys \ {"width"}, width |-> 0, height |-> 800, url |-> <<"t">>],
     [keys |-> AllKeys \ {"height"}, width |-> 1000, height |-> 0, url |-> <<"t">>],
     [keys |-> AllKeys \ {"url"}, width |-> 1000, height |-> 800, url |-> <<>>],
     [keys |-> AllKeys, width |-> 1000, height |-> 800, url |-> <<>>]}

\* response.json().get('data', {}).get('memes', [])
Listings == UNION {[1..n -> TemplateEntries] : n \in 0..MaxListing}

\* Replies of the model in a request.
CaptionReplies ==
    {PremiseLabel \o <<" ", "M", "o", "n", "d", "a", "y", " ", "a", "a", " ", "g", "a", "y", "a">> \o <<"\n">> \o PunchlineLabel \o <<" ", "C", "h", "a", "i", " ", "l", "a", "o">>,
     <<"H", "e", "l", "l", "o">>}

\* The second of the day the model starts in, and the seconds it can reach.
ClockStart == 59
Clock == ClockStart..(ClockStart + MaxClock)

\* A request arrives at the handler.
InitHandler ==
    /\ co_caller = "handler" /\ co_request \in Requests /\ co_variant = "none"
    /\ co_topic = <<>> /\ co_top_arg = <<>> /\ co_bottom_arg = <<>> /\ co_url_arg = None
    /\ co_top_text = <<>> /\ co_bottom_text = <<>>
    /\ co_pc = "request"

\* Another caller calls create_meme or create_meme_with_custom_text itself.
InitDirect ==
    /\ co_caller = "direct" /\ co_request = NoRequest
    /\ co_topic \in Topics
    /\ \/ /\ co_variant = "ai"
          /\ co_top_arg = <<>> /\ co_bottom_arg = <<>> /\ co_url_arg = None
       \/ /\ co_variant = "custom"
          /\ co_top_arg \in CustomTexts \ {<<>>, <<" ">>}
          /\ co_bottom_arg \in CustomTexts \ {<<>>, <<" ">>}
          /\ co_url_arg \in TemplateUrls
    /\ co_top_text = <<>> /\ co_bottom_text = <<>>
    /\ co_pc = "call"

InitCompose ==
    /\ InitHandler \/ InitDirect
    /\ ComposeFresh
    /\ BaseIdle /\ CaptionIdle /\ ConcIdle /\ LateIdle

\* generate_meme: initialize_generator() fails
HandlerInitFails ==
    /\ co_pc = "request"
    /\ co_result' = HttpError("Failed to initialize meme generator")
    /\ co_pc' = "done"
    /\ UNCHANGED <<coArgs, coTemplate, coCaption, coCount, coOut, baseVars, captionVars, concVars, lateVars>>

\* generate_meme: the fields are stripped, the request is refused or a call made
HandlerDispatch ==
    /\ co_pc = "request"
    /\ LET call == Dispatch(co_request)
       IN  /\ co_variant' = call.variant
           /\ co_topic' = call.topic
           /\ co_top_arg' = call.top_text
           /\ co_bottom_arg' = call.bottom_text
           /\ co_url_arg' = call.template_url
           /\ IF call.variant = "rejected"
              THEN /\ co_pc' = "done"
                   /\ co_result' = HttpError(IF co_request.empty THEN "No data provided"
                                             ELSE "Topic is required or both custom texts must be provided")
              ELSE /\ co_pc' = "call"
                   /\ UNCHANGED co_result
    /\ UNCHANGED <<co_caller, co_request, coTemplate, coCaption, coCount, coOut,
                   baseVars, captionVars, concVars, lateVars>>

\* create_meme(topic, context): get_meme_template() is called first
CallCreateMeme ==
    /\ co_pc = "call" /\ co_variant = "ai"
    /\ co_pc' = "listing"
    /\ UNCHANGED <<coArgs, coTemplate, coCaption, coCount, coOut, co_result,
                   baseVars, captionVars, concVars, lateVars>>

\* create_meme_with_custom_text(topic, top_text, bottom_text, ..., template_url)
CallCustomText ==
    /\ co_pc = "call" /\ co_variant = "custom"
    /\ co_top_text' = co_top_arg /\ co_bottom_text' = co_bottom_arg
    /\ co_pc' = IF co_url_arg # None THEN "own_url" ELSE "listing"
    /\ UNCHANGED <<coArgs, coTemplate, co_caption_raised, coCount, coOut, co_result,
                   baseVars, captionVars, concVars, lateVars>>

\* if template_url: the caller's template loads
OwnTemplateLoads ==
    /\ co_pc = "own_url"
    /\ co_downloads' = co_downloads + 1
    /\ co_template' = "own"
    /\ co_pc' = "download"
    /\ UNCHANGED <<coArgs, co_memes, co_picks, coCaption, co_caption_calls, co_writes,
                   coOut, co_result, baseVars, captionVars, concVars, lateVars>>

\* if template_url: the caller's template fails to load; get_meme_template()
OwnTemplateFails ==
    /\ co_pc = "own_url"
    /\ co_downloads' = co_downloads + 1
    /\ co_pc' = "listing"
    /\ UNCHANGED <<coArgs, coTemplate, coCaption, co_caption_calls, co_writes,
                   coOut, co_result, baseVars, captionVars, concVars, lateVars>>

\* get_meme_template returned template_url (None on failure): the test of it
\* in create_meme and create_meme_with_custom_text
TemplateReturns(template_url) ==
    /\ co_template' = IF template_url = None THEN "failed" ELSE "found"
    /\ co_pc' = AfterTemplate(template_url)
    /\ co_result' = IF AfterTemplate(template_url) = "done"
                    THEN FailureDict("Failed to fetch meme template")
                    ELSE co_result
    /\ co_memes' = <<>>

\* An exception leaves get_meme_template and with it the method.
TemplateRaises(exc) ==
    /\ co_template' = "raised"
    /\ co_pc' = "done"
    /\ co_result' = Raised(exc)
    /\ co_memes' = <<>>

\* requests.get, raise_for_status or response.json() raises a
\* RequestException (a malformed body does with requests from 2.27 on)
ListingRequestFails ==
    /\ co_pc = "listing"
    /\ TemplateReturns(None)
    /\ UNCHANGED <<coArgs, co_picks, coCaption, coCount, coOut, baseVars, captionVars, concVars, lateVars>>

\* response.json() fails on a malformed body with a ValueError that is no
\* RequestException (requests before 2.27)
ListingMalformedRaises ==
    /\ co_pc = "listing"
    /\ TemplateRaises("ValueError")
    /\ UNCHANGED <<coArgs, co_picks, coCaption, coCount, coOut, baseVars, captionVars, concVars, lateVars>>

\* memes = response.json().get('data', {}).get('memes', []); if not memes
ListingArrives ==
    /\ co_pc = "listing"
    /\ \E ms \in Listings :
          IF ms = <<>>
          THEN TemplateReturns(None)
          ELSE /\ co_memes' = ms
               /\ co_pc' = "choose"
               /\ UNCHANGED <<co_template, co_result>>
    /\ UNCHANGED <<coArgs, co_picks, coCaption, coCount, coOut, baseVars, captionVars, concVars, lateVars>>

\* One pass of while True: template = random.choice(memes) with memes[i]
\* chosen. A portrait entry leads to the next pass; the passes are counted
\* up to MaxPicks and no further.
TemplateChooseEntry(i) ==
    /\ co_pc = "choose"
    /\ i \in 1..Len(co_memes)
    /\ LET template == co_memes[i]
       IN  IF ~({"width", "height"} \subseteq template.keys)
           THEN TemplateRaises("KeyError") /\ UNCHANGED co_picks
           ELSE IF template.width >= template.height
           THEN IF "url" \in template.keys
                THEN TemplateReturns(template.url) /\ UNCHANGED co_picks
                ELSE TemplateRaises("KeyError") /\ UNCHANGED co_picks
           ELSE /\ co_picks' = Min(co_picks + 1, MaxPicks)
                /\ UNCHANGED <<co_memes, co_template, co_pc, co_result>>
    /\ UNCHANGED <<coArgs, coCaption, coCount, coOut, baseVars, captionVars, concVars, lateVars>>

TemplateChoose == \E i \in 1..MaxListing : TemplateChooseEntry(i)

\* requests.get(template_url), raise_for_status or Image.open raises
ImageDownloadFails ==
    /\ co_pc = "download"
    /\ co_downloads' = co_downloads + 1
    /\ co_result' = FailureDict("download")
    /\ co_pc' = "done"
    /\ UNCHANGED <<coArgs, coTemplate, coCaption, co_caption_calls, co_writes, coOut,
                   baseVars, captionVars, concVars, lateVars>>

\* The image is downloaded, opened and brought to the minimum size.
ImageDownload ==
    /\ co_pc = "download"
    /\ co_downloads' = co_downloads + 1
    /\ co_pc' = IF co_variant = "ai" THEN "caption" ELSE "font"
    /\ UNCHANGED <<coArgs, coTemplate, coCaption, co_caption_calls, co_writes, coOut,
                   co_result, baseVars, captionVars, concVars, lateVars>>

\* The rest of top_text, bottom_text = self.generate_meme_text(topic, context)
\* once generate_meme_text is left with out.
TakeText(out, raised) ==
    /\ co_caption_calls' = co_caption_calls + 1
    /\ co_caption_raised' = raised
    /\ IF out.kind = "raise"
       THEN /\ co_result' = FailureDict("caption")
            /\ co_pc' = "done"
            /\ UNCHANGED <<co_top_text, co_bottom_text>>
       ELSE /\ co_top_text' = out.pair[1]
            /\ co_bottom_text' = out.pair[2]
            /\ co_pc' = "font"
            /\ UNCHANGED co_result
    /\ UNCHANGED <<coArgs, coTemplate, co_downloads, co_writes, coOut, baseVars, captionVars, concVars, lateVars>>

\* generate_meme_text: the call to the model raises
GenerateTextRaises ==
    /\ co_pc = "caption"
    /\ TakeText(CaptionSource(TRUE, <<>>), TRUE)

\* generate_meme_text: the model replies
GenerateTextReplies ==
    /\ co_pc = "caption"
    /\ \E content \in CaptionReplies : TakeText(CaptionSource(FALSE, content), FALSE)

\* ImageFont.truetype raises: raise FileNotFoundError(...)
LoadFontFails ==
    /\ co_pc = "font"
    /\ co_result' = FailureDict("Cannot load font for meme generation")
    /\ co_pc' = "done"
    /\ UNCHANGED <<coArgs, coTemplate, coCaption, coCount, coOut, baseVars, captionVars, concVars, lateVars>>

\* The font is loaded and the layout parameters are computed.
LoadFont ==
    /\ co_pc = "font"
    /\ co_pc' = "top"
    /\ UNCHANGED <<coArgs, coTemplate, coCaption, coCount, coOut, co_result,
                   baseVars, captionVars, concVars, lateVars>>

\* # Draw top text
RenderTop ==
    /\ co_pc = "top"
    /\ co_rendered' = 1
    /\ co_pc' = "bottom"
    /\ UNCHANGED <<coArgs, coTemplate, coCaption, coCount, co_timestamp, co_filename,
                   co_file, co_result, baseVars, captionVars, concVars, lateVars>>

\* # Draw bottom text
RenderBottom ==
    /\ co_pc = "bottom"
    /\ co_rendered' = 2
    /\ co_pc' = "stamp"
    /\ UNCHANGED <<coArgs, coTemplate, coCaption, coCount, co_timestamp, co_filename,
                   co_file, co_result, baseVars, captionVars, concVars, lateVars>>

\* timestamp = datetime.now().strftime(...); filename = f"..."; a topic
\* without a word raises IndexError
TakeTimestamp ==
    /\ co_pc = "stamp"
    /\ \E t \in Clock :
          IF Split(co_topic) = <<>>
          THEN /\ co_result' = FailureDict("list index out of range")
               /\ co_pc' = "done"
               /\ UNCHANGED <<co_timestamp, co_filename>>
          ELSE /\ co_timestamp' = t
               /\ co_filename' = OutputPath(co_topic, t)
               /\ co_pc' = "save"
               /\ UNCHANGED co_result
    /\ UNCHANGED <<coArgs, coTemplate, coCaption, coCount, co_rendered, co_file,
                   baseVars, captionVars, concVars, lateVars>>

\* img.save(filename) writes the file
SaveWritten ==
    /\ co_pc = "save"
    /\ ParentExists(co_filename)
    /\ co_writes' = co_writes + 1
    /\ co_file' = "complete"
    /\ co_result' = SuccessDict(co_filename, co_top_text, co_bottom_text)
    /\ co_pc' = "done"
    /\ UNCHANGED <<coArgs, coTemplate, coCaption, co_downloads, co_caption_calls,
                   co_rendered, co_timestamp, co_filename, baseVars, captionVars, concVars, lateVars>>

\* img.save(filename) cannot open the file (no such directory, no permission)
SaveCannotOpen ==
    /\ co_pc = "save"
    /\ co_result' = FailureDict("open")
    /\ co_pc' = "done"
    /\ UNCHANGED <<coArgs, coTemplate, coCaption, coCount, coOut, baseVars, captionVars, concVars, lateVars>>

\* img.save(filename) fails part-way and the library removes the file it made
SaveBreaksFileRemoved ==
    /\ co_pc = "save"
    /\ ParentExists(co_filename)
    /\ co_writes' = co_writes + 1
    /\ co_file' = "none"
    /\ co_result' = FailureDict("write")
    /\ co_pc' = "done"
    /\ UNCHANGED <<coArgs, coTemplate, coCaption, co_downloads, co_caption_calls,
                   co_rendered, co_timestamp, co_filename, baseVars, captionVars, concVars, lateVars>>

\* img.save(filename) fails part-way and the file stays (the library does
\* not remove it, or cannot); the except clause of the method removes nothing
SaveBreaksFileLeft ==
    /\ co_pc = "save"
    /\ ParentExists(co_filename)
    /\ co_writes' = co_writes + 1
    /\ co_file' = "partial"
    /\ co_result' = FailureDict("write")
    /\ co_pc' = "done"
    /\ UNCHANGED <<coArgs, coTemplate, coCaption, co_downloads, co_caption_calls,
                   co_rendered, co_timestamp, co_filename, baseVars, captionVars, concVars, lateVars>>

NextCompose ==
    \/ HandlerInitFails \/ HandlerDispatch \/ CallCreateMeme \/ CallCustomText
    \/ OwnTemplateLoads \/ OwnTemplateFails
    \/ ListingRequestFails \/ ListingMalformedRaises
    \/ ListingArrives \/ TemplateChoose
    \/ ImageDownloadFails \/ ImageDownload
    \/ GenerateTextRaises \/ GenerateTextReplies
    \/ LoadFontFails \/ LoadFont \/ RenderTop \/ RenderBottom
    \/ TakeTimestamp
    \/ SaveWritten \/ SaveCannotOpen \/ SaveBreaksFileRemoved \/ SaveBreaksFileLeft

SpecCompose == InitCompose /\ [][NextCompose]_vars

\* A request that can take a step takes one: the interpreter does not halt.
SpecComposeFair == SpecCompose /\ WF_vars(NextCompose)

\* ------------------------- compositions sharing the output directory

\* Topics of the compositions: two with the same first word, one with
\* another, one without a word.
ConcTopics == {<<"c", "a", "t", "s">>, <<"c", "a", "t", "s", " ", "d", "o", "g", "s">>, <<"d", "o", "g", "s">>, <<" ">>}

\* The files of the output directory: path -> [by |-> the composition that
\* wrote it last, state |-> "complete" or "partial"].
NoFiles == <<>>

\* open(filename, "w+b") and the write: the file at path is made or replaced.
WriteFile(files, path, p, state) ==
    [f \in DOMAIN files \cup {path} |->
        IF f = path THEN [by |-> p, state |-> state] ELSE files[f]]

\* Both captions are drawn in every composition.
InitConcurrent ==
    /\ cc_topic \in [Procs -> ConcTopics]
    /\ cc_pc = [p \in Procs |-> "stamp"]
    /\ cc_timestamp = [p \in Procs |-> 0]
    /\ cc_filename = [p \in Procs |-> None]
    /\ cc_result = [p \in Procs |-> NoOutcome]
    /\ cc_clock = ClockStart
    /\ cc_files = NoFiles
    /\ cc_saves = <<>>
    /\ BaseIdle /\ CaptionIdle /\ ComposeIdle /\ LateIdle

\* A second passes.
Tick ==
    /\ cc_clock < ClockStart + MaxClock
    /\ cc_clock' = cc_clock + 1
    /\ UNCHANGED <<cc_topic, cc_pc, cc_timestamp, cc_filename, cc_result, cc_files,
                   cc_saves, baseVars, captionVars, composeVars, lateVars>>

\* timestamp = datetime.now().strftime(...); filename = f"..."
ConcTakeTimestamp(p) ==
    /\ cc_pc[p] = "stamp"
    /\ IF Split(cc_topic[p]) = <<>>
       THEN /\ cc_result' = [cc_result EXCEPT ![p] = FailureDict("list index out of range")]
            /\ cc_pc' = [cc_pc EXCEPT ![p] = "done"]
            /\ UNCHANGED <<cc_timestamp, cc_filename>>
       ELSE /\ cc_timestamp' = [cc_timestamp EXCEPT ![p] = cc_clock]
            /\ cc_filename' = [cc_filename EXCEPT ![p] = OutputPath(cc_topic[p], cc_clock)]
            /\ cc_pc' = [cc_pc EXCEPT ![p] = "save"]
            /\ UNCHANGED cc_result
    /\ UNCHANGED <<cc_topic, cc_clock, cc_files, cc_saves, baseVars, captionVars, composeVars, lateVars>>

\* img.save(filename) writes the file; return {"success": True, ...}
ConcSaveWritten(p) ==
    /\ cc_pc[p] = "save"
    /\ ParentExists(cc_filename[p])
    /\ cc_files' = WriteFile(cc_files, cc_filename[p], p, "complete")
    /\ cc_saves' = Append(cc_saves, p)
    /\ cc_result' = [cc_result EXCEPT ![p] = SuccessDict(cc_filename[p], <<>>, <<>>)]
    /\ cc_pc' = [cc_pc EXCEPT ![p] = "done"]
    /\ UNCHANGED <<cc_topic, cc_timestamp, cc_filename, cc_clock,
                   baseVars, captionVars, composeVars, lateVars>>

\* img.save(filename) cannot open the file; except Exception
ConcSaveCannotOpen(p) ==
    /\ cc_pc[p] = "save"
    /\ cc_result' = [cc_result EXCEPT ![p] = FailureDict("open")]
    /\ cc_pc' = [cc_pc EXCEPT ![p] = "done"]
    /\ UNCHANGED <<cc_topic, cc_timestamp, cc_filename, cc_clock, cc_files, cc_saves,
                   baseVars, captionVars, composeVars, lateVars>>

NextConcurrent ==
    \/ Tick
    \/ \E p \in Procs : ConcTakeTimestamp(p)
    \/ \E p \in Procs : ConcSaveWritten(p)
    \/ \E p \in Procs : ConcSaveCannotOpen(p)

SpecConcurrent == InitConcurrent /\ [][NextConcurrent]_vars

\* ------------------------------ app.py: the lazily initialised generator

Endpoints == {"categories", "generate", "random", "health"}

\* A constructor that returns whether a font was found or not.
ConstructorCompletesAlways(font_found) == TRUE

\* if not font_found: raise FileNotFoundError(...)
ConstructorCompletes(font_found) == font_found

\* The server starts without a generator (initialize_generator failed at the
\* entry point, or the module was imported by a WSGI server), or with the one
\* the entry point made; a request is at the head of a handler in each thread.
InitGenerator ==
    /\ \/ /\ ig_generator = NoGenerator /\ ig_constructed = 0 /\ ig_fonts = {}
          /\ ig_font_file \in BOOLEAN
       \/ /\ ig_generator = 1 /\ ig_constructed = 1 /\ ig_fonts = {"found"}
          /\ ig_font_file = TRUE
    /\ ig_owner = 0 /\ ig_replaced = FALSE
    /\ ig_pc = [t \in Threads |-> "start"]
    /\ ig_endpoint \in [Threads -> Endpoints]
    /\ ig_font_path = [t \in Threads |-> "none"]
    /\ ig_init = [t \in Threads |-> "none"]
    /\ ig_status = [t \in Threads |-> 0]
    /\ ig_called = [t \in Threads |-> "none"]
    /\ ig_requests = [t \in Threads |-> 1]
    /\ BaseIdle /\ MidIdle /\ ServeIdle /\ BatchIdle

\* if not meme_generator:
TestGenerator(t) ==
    /\ ig_pc[t] = "start"
    /\ ig_pc' = [ig_pc EXCEPT ![t] = IF ig_generator = NoGenerator THEN "construct" ELSE "use"]
    /\ UNCHANGED <<igShared, ig_endpoint, ig_font_path, ig_init, ig_status, ig_called,
                   ig_requests, besideInit>>

\* The constructor raised: initialize_generator returns False and the handler
\* returns the error with status 500.
InitFailed(t) ==
    /\ ig_init' = [ig_init EXCEPT ![t] = "false"]
    /\ ig_status' = [ig_status EXCEPT ![t] = 500]
    /\ ig_pc' = [ig_pc EXCEPT ![t] = "done"]

\* MemeGeneratorClean(): load_dotenv() or Groq(...) raises
EnvironmentFails(t) ==
    /\ ig_pc[t] = "construct"
    /\ InitFailed(t)
    /\ UNCHANGED <<igShared, ig_endpoint, ig_font_path, ig_called, ig_requests, besideInit>>

\* font_files = [f for f in os.listdir(self.fonts_dir) if f.endswith(...)]
FontCheck(t) ==
    /\ ig_pc[t] = "construct"
    /\ IF ig_font_file
       THEN /\ ig_font_path' = [ig_font_path EXCEPT ![t] = "found"]
            /\ ig_pc' = [ig_pc EXCEPT ![t] = "assign"]
       ELSE /\ ig_pc' = [ig_pc EXCEPT ![t] = "download"]
            /\ UNCHANGED ig_font_path
    /\ UNCHANGED <<igShared, ig_endpoint, ig_init, ig_status, ig_called, ig_requests,
                   besideInit>>

\* self._download_font() returns True: the font file is in the directory
FontDownload(t) ==
    /\ ig_pc[t] = "download"
    /\ ig_font_file' = TRUE
    /\ ig_font_path' = [ig_font_path EXCEPT ![t] = "downloaded"]
    /\ ig_pc' = [ig_pc EXCEPT ![t] = "assign"]
    /\ UNCHANGED <<ig_generator, ig_owner, ig_constructed, ig_replaced, ig_fonts,
                   ig_endpoint, ig_init, ig_status, ig_called, ig_requests, besideInit>>

\* self._download_font() returns False; if not font_found: raise
FontDownloadFails(t) ==
    /\ ig_pc[t] = "download"
    /\ IF ConstructorCompletes(FALSE)
       THEN /\ ig_pc' = [ig_pc EXCEPT ![t] = "assign"]
            /\ UNCHANGED <<ig_init, ig_status>>
       ELSE InitFailed(t)
    /\ UNCHANGED <<igShared, ig_endpoint, ig_font_path, ig_called, ig_requests, besideInit>>

\* meme_generator = MemeGeneratorClean() completes; return True
AssignGenerator(t) ==
    /\ ig_pc[t] = "assign"
    /\ ig_constructed' = ig_constructed + 1
    /\ ig_generator' = ig_constructed + 1
    /\ ig_owner' = t
    /\ ig_replaced' = (ig_replaced \/ ig_generator # NoGenerator)
    /\ ig_fonts' = ig_fonts \cup {ig_font_path[t]}
    /\ ig_init' = [ig_init EXCEPT ![t] = "true"]
    /\ ig_pc' = [ig_pc EXCEPT ![t] = "use"]
    /\ UNCHANGED <<ig_font_file, ig_endpoint, ig_font_path, ig_status, ig_called,
                   ig_requests, besideInit>>

\* The rest of the handler: health_check reads the global; generate_meme may
\* refuse the request before it calls create_meme; the others call a method
\* of meme_generator, which raises AttributeError on None (status 500).
UseGenerator(t) ==
    /\ ig_pc[t] = "use"
    /\ \E refused \in BOOLEAN, status \in {200, 500} :
          /\ refused => ig_endpoint[t] = "generate"
          /\ IF ig_endpoint[t] = "health"
             THEN /\ ig_called' = [ig_called EXCEPT ![t] = "none"]
                  /\ ig_status' = [ig_status EXCEPT ![t] = 200]
             ELSE IF refused
             THEN /\ ig_called' = [ig_called EXCEPT ![t] = "none"]
                  /\ ig_status' = [ig_status EXCEPT ![t] = 400]
             ELSE IF ig_generator = NoGenerator
             THEN /\ ig_called' = [ig_called EXCEPT ![t] = "on_none"]
                  /\ ig_status' = [ig_status EXCEPT ![t] = 500]
             ELSE /\ ig_called' = [ig_called EXCEPT ![t] =
                                      IF ig_endpoint[t] = "categories"
                                      THEN "get_topic_categories" ELSE "create_meme"]
                  /\ ig_status' = [ig_status EXCEPT ![t] =
                                      IF ig_endpoint[t] = "categories" THEN 200 ELSE status]
    /\ ig_pc' = [ig_pc EXCEPT ![t] = "done"]
    /\ UNCHANGED <<igShared, ig_endpoint, ig_font_path, ig_init, ig_requests, besideInit>>

\* The thread takes its next request.
NextRequest(t) ==
    /\ ig_pc[t] = "done"
    /\ ig_requests[t] < MaxRequests
    /\ ig_requests' = [ig_requests EXCEPT ![t] = ig_requests[t] + 1]
    /\ \E ep \in Endpoints : ig_endpoint' = [ig_endpoint EXCEPT ![t] = ep]
    /\ ig_pc' = [ig_pc EXCEPT ![t] = "start"]
    /\ ig_font_path' = [ig_font_path EXCEPT ![t] = "none"]
    /\ ig_init' = [ig_init EXCEPT ![t] = "none"]
    /\ ig_status' = [ig_status EXCEPT ![t] = 0]
    /\ ig_called' = [ig_called EXCEPT ![t] = "none"]
    /\ UNCHANGED <<igShared, besideInit>>

NextGenerator ==
    \/ \E t \in Threads : TestGenerator(t)
    \/ \E t \in Threads : EnvironmentFails(t)
    \/ \E t \in Threads : FontCheck(t)
    \/ \E t \in Threads : FontDownload(t)
    \/ \E t \in Threads : FontDownloadFails(t)
    \/ \E t \in Threads : AssignGenerator(t)
    \/ \E t \in Threads : UseGenerator(t)
    \/ \E t \in Threads : NextRequest(t)

SpecGenerator == InitGenerator /\ [][NextGenerator]_vars


\* ------------------------------------------ /api/download and /api/view

\* posixpath.basename(p): what follows the last "/" of p.
RECURSIVE Basename(_)
Basename(p) ==
    IF ~Contains(p, <<"/">>) THEN p
    ELSE Basename(SubSeq(p, Find(p, <<"/">>) + 1, Len(p)))

\* A handler that joins the filename of the URL as it is.
SafeFilenameAsGiven(filename) == filename

\* safe_filename = os.path.basename(filename)
SafeFilename(filename) == Basename(filename)

\* posixpath.join(a, b): b alone when it is absolute, else a and b with one
\* "/" between them.
PathJoin(a, b) ==
    IF b # <<>> /\ b[1] = "/" THEN b
    ELSE IF a = <<>> \/ a[Len(a)] = "/" THEN a \o b
    ELSE a \o <<"/">> \o b

\* 'memes', the first argument of os.path.join.
MemesDirName == <<"m", "e", "m", "e", "s">>

\* The components of a path: the pieces between its "/".
RECURSIVE Components(_)
Components(p) ==
    IF ~Contains(p, <<"/">>) THEN <<p>>
    ELSE LET i == Find(p, <<"/">>)
         IN  <<SubSeq(p, 1, i - 1)>> \o Components(SubSeq(p, i + 1, Len(p)))

\* The file system the server runs in, as the sequences of names from the
\* root: the working directory /srv holds app.py and the memes directory.
WorkingDir == <<<<"s", "r", "v">>>>
MemesDir == <<<<"s", "r", "v">>, <<"m", "e", "m", "e", "s">>>>
Directories == {<<>>, WorkingDir, MemesDir, <<<<"e", "t", "c">>>>}
OtherFiles == {<<<<"s", "r", "v">>, <<"a", "p", "p", ".", "p", "y">>>>, <<<<"e", "t", "c">>, <<"p", "a", "s", "s", "w", "d">>>>}
RegularFiles(memes) == OtherFiles \cup {Append(MemesDir, name) : name \in memes}

\* No entry of the file system.
NoEntry == <<<<"?">>>>

\* One component of a path applied to the entry reached so far.
Walk(memes, entry, name) ==
    IF entry \notin Directories THEN NoEntry
    ELSE IF name \in {<<>>, <<".">>} THEN entry
    ELSE IF name = <<".", ".">>
         THEN (IF entry = <<>> THEN <<>> ELSE SubSeq(entry, 1, Len(entry) - 1))
    ELSE IF Append(entry, name) \in Directories \cup RegularFiles(memes)
         THEN Append(entry, name)
    ELSE NoEntry

RECURSIVE WalkAll(_, _, _)
WalkAll(memes, entry, names) ==
    IF names = <<>> THEN entry
    ELSE WalkAll(memes, Walk(memes, entry, Head(names)), Tail(names))

\* The entry a path names, from the root when the path is absolute and from
\* the working directory when it is not; NoEntry when there is none.
Resolve(memes, path) ==
    IF path = <<>> THEN NoEntry
    ELSE WalkAll(memes, IF path[1] = "/" THEN <<>> ELSE WorkingDir, Components(path))

\* os.path.exists(path)
PathExists(memes, path) == Resolve(memes, path) # NoEntry

\* The filenames of the requests.
Filenames ==
    {<<"m", ".", "p", "n", "g">>, <<"x", ".", "p", "n", "g">>, <<"a", "p", "p", ".", "p", "y">>, <<"m", "e", "m", "e", "s">>, <<".", ".">>, <<".">>, <<"a", "/">>, <<"a", "/", "m", ".", "p", "n", "g">>, <<".", ".", "/", "a", "p", "p", ".", "p", "y">>,
     <<"/", "e", "t", "c", "/", "p", "a", "s", "s", "w", "d">>, <<".", ".", "/", ".", ".", "/", "e", "t", "c", "/", "p", "a", "s", "s", "w", "d">>, <<"m", ".", "p", "n", "g", "/", ".", ".">>}

\* The names the memes directory may hold.
MemeNames == {<<"m", ".", "p", "n", "g">>, <<"a", "p", "p", ".", "p", "y">>}

ServeEndpoints == {"download", "view"}

\* A request for /api/download/<filename> or /api/view/<filename> arrives.
InitServe ==
    /\ sv_endpoint \in ServeEndpoints
    /\ sv_filename \in Filenames
    /\ sv_memes \in SUBSET MemeNames
    /\ sv_safe = <<>> /\ sv_path = <<>> /\ sv_sent = <<>> /\ sv_status = 0
    /\ sv_pc = "start"
    /\ BaseIdle /\ MidIdle /\ InitIdle /\ BatchIdle

\* safe_filename = os.path.basename(filename)
\* file_path = os.path.join('memes', safe_filename)
ServePath ==
    /\ sv_pc = "start"
    /\ sv_safe' = SafeFilename(sv_filename)
    /\ sv_path' = PathJoin(MemesDirName, SafeFilename(sv_filename))
    /\ sv_pc' = "exists"
    /\ UNCHANGED <<sv_endpoint, sv_filename, sv_memes, sv_sent, sv_status, besideServe>>

\* if not os.path.exists(file_path): return ..., 404
ServeNotFound ==
    /\ sv_pc = "exists"
    /\ ~PathExists(sv_memes, sv_path)
    /\ sv_status' = 404
    /\ sv_pc' = "done"
    /\ UNCHANGED <<sv_endpoint, sv_filename, sv_memes, sv_safe, sv_path, sv_sent, besideServe>>

\* The test finds an entry: the handler goes on to send_file.
ServeFound ==
    /\ sv_pc = "exists"
    /\ PathExists(sv_memes, sv_path)
    /\ sv_pc' = "send"
    /\ UNCHANGED <<sv_endpoint, sv_filename, sv_memes, sv_safe, sv_path, sv_sent, sv_status,
                   besideServe>>

\* return send_file(file_path, ...): a regular file is opened and sent.
SendFile ==
    /\ sv_pc = "send"
    /\ Resolve(sv_memes, sv_path) \in RegularFiles(sv_memes)
    /\ sv_sent' = sv_path
    /\ sv_status' = 200
    /\ sv_pc' = "done"
    /\ UNCHANGED <<sv_endpoint, sv_filename, sv_memes, sv_safe, sv_path, besideServe>>

\* send_file opens a directory: IsADirectoryError, caught by the handler's
\* except Exception, which answers 500.
SendFileRaises ==
    /\ sv_pc = "send"
    /\ Resolve(sv_memes, sv_path) \in Directories
    /\ sv_status' = 500
    /\ sv_pc' = "done"
    /\ UNCHANGED <<sv_endpoint, sv_filename, sv_memes, sv_safe, sv_path, sv_sent, besideServe>>

NextServe == ServePath \/ ServeNotFound \/ ServeFound \/ SendFile \/ SendFileRaises

SpecServe == InitServe /\ [][NextServe]_vars


\* ---------------------------------- the batch and the interactive script

\* What a call of create_meme does: it returns the dict of a success, returns
\* the dict of a failure, or raises.
Outcomes == {"success", "failure", "raised"}

\* len() of the dict create_meme returns: seven keys on success, three on
\* failure.
DictLen(outcome) == IF outcome = "success" THEN 7 ELSE 3

\* if filename: the truth value of the dict, true when it has a key.
Truthy(outcome) == DictLen(outcome) > 0

\* The script starts: generate_sample_memes or generate_meme_interactive.
InitBatch ==
    /\ bt_script \in {"batch", "interactive"}
    /\ bt_pc = "construct" /\ bt_calls = 0 /\ bt_outcomes = <<>>
    /\ bt_successful = <<>> /\ bt_failed = <<>> /\ bt_printed = <<>>
    /\ BaseIdle /\ MidIdle /\ InitIdle /\ ServeIdle

\* generator = MemeGeneratorClean() raises: the outer except prints the
\* initialisation error and the script ends.
ScriptInitFails ==
    /\ bt_pc = "construct"
    /\ bt_printed' = Append(bt_printed, "init_error")
    /\ bt_pc' = "done"
    /\ UNCHANGED <<bt_script, bt_calls, bt_outcomes, bt_successful, bt_failed, besideBatch>>

\* generator = MemeGeneratorClean(); successful_memes = []; failed_memes = []
ScriptInit ==
    /\ bt_pc = "construct"
    /\ bt_pc' = "loop"
    /\ UNCHANGED <<bt_script, bt_calls, bt_outcomes, bt_successful, bt_failed, bt_printed,
                   besideBatch>>

\* One pass of the for loop in which create_meme returns: the topic goes to
\* successful_memes when the value returned is true, else to failed_memes.
BatchReturns ==
    /\ bt_script = "batch" /\ bt_pc = "loop" /\ bt_calls < MaxTopics
    /\ \E outcome \in {"success", "failure"} :
          /\ bt_outcomes' = Append(bt_outcomes, outcome)
          /\ IF Truthy(outcome)
             THEN /\ bt_successful' = Append(bt_successful, bt_calls + 1)
                  /\ bt_printed' = Append(bt_printed, "success")
                  /\ UNCHANGED bt_failed
             ELSE /\ bt_failed' = Append(bt_failed, bt_calls + 1)
                  /\ bt_printed' = Append(bt_printed, "failed")
                  /\ UNCHANGED bt_successful
    /\ bt_calls' = bt_calls + 1
    /\ UNCHANGED <<bt_script, bt_pc, besideBatch>>

\* One pass of the for loop in which create_meme raises: except Exception
\* appends the topic to failed_memes.
BatchRaises ==
    /\ bt_script = "batch" /\ bt_pc = "loop" /\ bt_calls < MaxTopics
    /\ bt_outcomes' = Append(bt_outcomes, "raised")
    /\ bt_failed' = Append(bt_failed, bt_calls + 1)
    /\ bt_printed' = Append(bt_printed, "error")
    /\ bt_calls' = bt_calls + 1
    /\ UNCHANGED <<bt_script, bt_pc, bt_successful, besideBatch>>

\* The loop is over: the summary with the lengths of the two lists.
BatchSummary ==
    /\ bt_script = "batch" /\ bt_pc = "loop" /\ bt_calls = MaxTopics
    /\ bt_printed' = Append(bt_printed, "summary")
    /\ bt_pc' = "done"
    /\ UNCHANGED <<bt_script, bt_calls, bt_outcomes, bt_successful, bt_failed, besideBatch>>

\* One round of the interactive loop in which create_meme returns: the
\* success message when the value returned is true, else the failure message.
InteractiveReturns ==
    /\ bt_script = "interactive" /\ bt_pc = "loop" /\ bt_calls < MaxTopics
    /\ \E outcome \in {"success", "failure"} :
          /\ bt_outcomes' = Append(bt_outcomes, outcome)
          /\ bt_printed' = Append(bt_printed, IF Truthy(outcome) THEN "success" ELSE "failed")
    /\ bt_calls' = bt_calls + 1
    /\ UNCHANGED <<bt_script, bt_pc, bt_successful, bt_failed, besideBatch>>

\* create_meme raises in the interactive loop: the outer except prints the
\* initialisation error and the script ends.
InteractiveRaises ==
    /\ bt_script = "interactive" /\ bt_pc = "loop" /\ bt_calls < MaxTopics
    /\ bt_outcomes' = Append(bt_outcomes, "raised")
    /\ bt_printed' = Append(bt_printed, "init_error")
    /\ bt_calls' = bt_calls + 1
    /\ bt_pc' = "done"
    /\ UNCHANGED <<bt_script, bt_successful, bt_failed, besideBatch>>

\* The user leaves the interactive loop.
InteractiveQuit ==
    /\ bt_script = "interactive" /\ bt_pc = "loop"
    /\ bt_printed' = Append(bt_printed, "thanks")
    /\ bt_pc' = "done"
    /\ UNCHANGED <<bt_script, bt_calls, bt_outcomes, bt_successful, bt_failed, besideBatch>>

NextBatch ==
    \/ ScriptInitFails \/ ScriptInit \/ BatchReturns \/ BatchRaises \/ BatchSummary
    \/ InteractiveReturns \/ InteractiveRaises \/ InteractiveQuit

SpecBatch == InitBatch /\ [][NextBatch]_vars

\* ------------------------------------------------------ claims: _wrap_text

\* Whether string s, rendered with the font of the run, is no wider than max_width.
Fits(s) == GetLength(s, font) <= max_width * EmUnits

AllFit(seq) == \A k \in 1..Len(seq) : Fits(seq[k])

RECURSIVE SplitAll(_)
SplitAll(ls) == IF ls = <<>> THEN <<>> ELSE Split(Head(ls)) \o SplitAll(Tail(ls))

\* The over-long words of a sequence of words, in order.
RECURSIVE TooWide(_)
TooWide(ws) == IF ws = <<>> THEN <<>>
               ELSE (IF Fits(Head(ws)) THEN <<>> ELSE <<Head(ws)>>) \o TooWide(Tail(ws))

\* The lines that consist of one over-long word, in order.
RECURSIVE TooWideLines(_)
TooWideLines(ls) ==
    IF ls = <<>> THEN <<>>
    ELSE (IF Len(Split(Head(ls))) = 1 /\ ~Fits(Head(ls)) THEN <<Head(ls)>> ELSE <<>>)
         \o TooWideLines(Tail(ls))

\* C1: when every word of the text fits max_width on its own, every line
\* _wrap_text returns fits max_width.
C1_LinesFit ==
    (wrap_pc = "done" /\ AllFit(Split(text))) => AllFit(lines)

\* C1 witness: a text of fitting words that was broken, with a line of two words.
C1_Witness ==
    /\ wrap_pc = "done" /\ AllFit(Split(text))
    /\ Len(lines) >= 2
    /\ \E j \in 1..Len(lines) : Len(Split(lines[j])) >= 2

\* C2: the words of the returned lines, in order, are exactly text.split(),
\* whatever max_width is.
C2_WordsPreserved ==
    wrap_pc = "done" => SplitAll(lines) = Split(text)

\* C2 witness: three or more words, one too wide for max_width and one that fits.
C2_Witness ==
    /\ wrap_pc = "done" /\ Len(words) >= 3
    /\ \E k \in 1..Len(words) : ~Fits(words[k])
    /\ \E k \in 1..Len(words) : Fits(words[k])
    /\ Len(lines) >= 2

\* C3: every word wider than max_width is a line of its own, unmodified, and
\* no line holds such a word together with another word.
C3_OverlongAlone ==
    wrap_pc = "done" =>
        /\ \A j \in 1..Len(lines) :
              \A k \in 1..Len(Split(lines[j])) :
                  ~Fits(Split(lines[j])[k]) => lines[j] = Split(lines[j])[k]
        /\ TooWideLines(lines) = TooWide(Split(text))

\* C3 witness: an over-long first word, and an over-long word that follows a
\* partially filled line.
C3_Witness ==
    /\ wrap_pc = "done" /\ Len(words) >= 3
    /\ ~Fits(words[1])
    /\ \E k \in 2..Len(words) : Fits(words[k - 1]) /\ ~Fits(words[k])

\* -------------------------------------------- claims: _calculate_font_size

\* clamp(x, lo, hi)
Clamp(x, lo, hi) == Max(lo, Min(x, hi))

\* The sizes the search may stop at above the floor: start, start-2, ...
Candidates(height) ==
    LET start == Clamp(IntPct(height, InitialPct), IntPct(height, MinPct),
                       IntPct(height, MaxPct))
        floor == IntPct(height, MinPct)
    IN  {c \in (floor + 1)..start : (start - c) % 2 = 0}

FittingCandidates == {c \in Candidates(fs_height) : FontFits(fs_width, fs_text, c)}

SetMax(S) == CHOOSE x \in S : \A y \in S : y <= x

\* C4: the size returned is an integer >= int(0.06*H), also for a text that
\* fits at no candidate size.
C4_AtLeastFloor ==
    fs_pc = "done" => fs_result \in Int /\ fs_result >= IntPct(fs_height, MinPct)

\* C4 witness: a text that fits at no size, on a height whose search steps
\* over the floor.
C4_Witness ==
    /\ fs_pc = "done" /\ FittingCandidates = {}
    /\ font_size < min_size
    /\ fs_result = min_size

\* C5: the result is the first size of start, start-2, ... above the floor at
\* which the text is no wider than 0.80*W, and the floor when there is none.
C5_FirstFittingSize ==
    fs_pc = "done" =>
        fs_result = IF FittingCandidates # {} THEN SetMax(FittingCandidates)
                    ELSE IntPct(fs_height, MinPct)

\* C5 witness: the search stopped strictly between the floor and the start.
C5_Witness ==
    /\ fs_pc = "done"
    /\ fs_result > min_size + 1
    /\ fs_result < FontStart(fs_height)

\* C6: for fixed image dimensions, the size selected for a text is never
\* larger than the size selected for any of its prefixes.
C6_MonotonicInText ==
    fs_pc = "done" =>
        \A k \in 0..Len(fs_text) :
            fs_result <= CalculateFontSize(fs_width, fs_height, SubSeq(fs_text, 1, k))

\* C6 witness: a text with a prefix that gets a strictly larger size, both
\* above the floor.
C6_Witness ==
    /\ fs_pc = "done" /\ fs_result > min_size
    /\ \E k \in 1..Len(fs_text) :
          /\ fs_result < CalculateFontSize(fs_width, fs_height, SubSeq(fs_text, 1, k))
          /\ CalculateFontSize(fs_width, fs_height, SubSeq(fs_text, 1, k))
                 < FontStart(fs_height)

\* ------------------------------------------------- claims: caption layout

AllDrawn == top_drawn \o bottom_drawn

\* C7: in every composition the lower edge of the top block,
\* margin + nTop*lineHeight, is not below the upper edge of the bottom block,
\* H - margin - nBottom*lineHeight.
C7_BlocksDoNotOverlap ==
    cm_pc \in {"save", "done"} =>
        margin + Len(top_drawn) * line_height
            <= img[2] - margin - Len(bottom_drawn) * line_height

\* C8: every line drawn in the top and bottom blocks lies inside the image:
\* 0 <= x, x + lineWidth <= W, 0 <= y and y + lineHeight <= H.
C8_DrawnInsideImage ==
    cm_pc \in {"save", "done"} =>
        \A i \in 1..Len(AllDrawn) :
            LET d == AllDrawn[i]
            IN  /\ 0 <= d.x
                /\ d.x * EmUnits + GetLength(d.text, cm_font_size) <= img[1] * EmUnits
                /\ 0 <= d.y
                /\ d.y + line_height <= img[2]

\* -------------------------------------------- claims: minimum image size

\* C9: an image with a dimension below 800 is resized to a width and a
\* height that are both >= 800.
C9_UpscaledToMinimum ==
    (/\ norm_pc = "once"
     /\ norm_size[1] > 0 /\ norm_size[2] > 0
     /\ (norm_size[1] < MinImageSize \/ norm_size[2] < MinImageSize))
        => norm_first[1] >= MinImageSize /\ norm_first[2] >= MinImageSize

\* C10: the minimum-size step applied to its own output changes neither
\* dimension, and an image with both dimensions >= 800 is left untouched.
C10_Idempotent ==
    /\ norm_pc = "twice" => norm_size = norm_first
    /\ (norm_pc = "once" /\ norm_size[1] >= MinImageSize /\ norm_size[2] >= MinImageSize)
           => norm_first = norm_size

\* ------------------------------------------------- claims: caption parsing

\* C15: whatever the model's reply is, the pair _process_generated_text of
\* meme-bot returns has two components that are non-empty after stripping.
C15_MemeBotPairNonEmpty ==
    (cap_pc = "done" /\ cap_bot = "meme-bot") =>
        /\ Len(cap_pair) = 2
        /\ Strip(cap_pair[1]) # <<>>
        /\ Strip(cap_pair[2]) # <<>>

\* A reply of one label and one quote, for which the premise is the default.
C15_Witness ==
    /\ cap_pc = "done" /\ cap_bot = "meme-bot"
    /\ raw_text = PremiseLabel \o <<"\n">> \o Quote
    /\ cap_pair[1] = DefaultPremise

\* C16: whatever the model's reply is, the pair generate_meme_text of
\* twitter-meme-bot returns has two non-empty components.
C16_TwitterPairNonEmpty ==
    (cap_pc = "done" /\ cap_bot = "twitter-meme-bot") =>
        /\ Len(cap_pair) = 2
        /\ cap_pair[1] # <<>>
        /\ cap_pair[2] # <<>>

\* ------------------------------------------ claims: failures and results

\* The method was called and is left.
MethodLeft == co_pc = "done" /\ co_variant \in {"ai", "custom"}

\* C11: create_meme and create_meme_with_custom_text never raise: when the
\* method is left it has returned a dict, and a failure is a dict with
\* success False, an error message and no filename.
C11_NeverRaises ==
    MethodLeft =>
        /\ co_result.kind = "returned"
        /\ ~co_result.success => (co_result.error # "" /\ co_result.filename = None)

\* C12: when get_meme_template returns failure, the method returns at once
\* with success False and filename None, and the invocation has called the
\* caption source and written a file zero times and has downloaded no image
\* (but for the caller's own template, tried before the template source).
C12_TemplateFailureAborts ==
    co_template = "failed" =>
        /\ co_pc = "done"
        /\ co_result.kind = "returned" /\ ~co_result.success
        /\ co_result.filename = None
        /\ co_caption_calls = 0 /\ co_writes = 0 /\ co_file = "none"
        /\ co_downloads = IF co_variant = "custom" /\ co_url_arg # None THEN 1 ELSE 0

\* create_meme has returned the template failure without a download.
C12_Witness ==
    /\ co_variant = "ai" /\ co_template = "failed" /\ co_pc = "done"
    /\ co_result = FailureDict("Failed to fetch meme template")
    /\ co_downloads = 0

\* C13: the output file is written only after both caption blocks are
\* rendered, and when the returned result has success False no output file
\* of the invocation is on disk.
C13_NoPartialOutput ==
    /\ co_writes > 0 => co_rendered = 2
    /\ (co_result.kind = "returned" /\ ~co_result.success) => co_file = "none"

\* Failures of create_meme that the caption source has no part in.
OtherFailures == {"download", "Cannot load font for meme generation",
                  "list index out of range", "open", "write"}

\* C14: when the call to the model raises, generate_meme_text returns the
\* fallback pair instead of raising, and create_meme returns success True
\* with that pair as top_text and bottom_text unless the download, the font
\* load, the filename or the save fails.
C14_CaptionFallback ==
    co_caption_raised =>
        /\ co_top_text = ErrorTop /\ co_bottom_text = ErrorBottom
        /\ co_pc # "done" => co_result = NoOutcome
        /\ co_pc = "done" =>
              \/ co_result = SuccessDict(co_filename, ErrorTop, ErrorBottom)
              \/ co_result.kind = "returned" /\ co_result.error \in OtherFailures

\* The call to the model raised and create_meme returned success.
C14_Witness ==
    /\ co_caption_raised /\ co_pc = "done" /\ co_result.success
    /\ co_result.top_text = ErrorTop /\ co_result.bottom_text = ErrorBottom
    /\ co_file = "complete"

\* ------------------------------------------------ claims: the two variants

\* Both custom texts of the request are non-empty after stripping.
BothCustom == Strip(co_request.custom_top_text) # <<>>
                  /\ Strip(co_request.custom_bottom_text) # <<>>

\* The handler has got past the initialisation and taken its decision.
Dispatched == co_caller = "handler" /\ co_variant # "none"

\* create_meme_with_custom_text never calls the caption source and returns
\* the texts it was given.
CustomVerbatim ==
    co_variant = "custom" =>
        /\ co_caption_calls = 0
        /\ co_result.success =>
              /\ co_result.top_text = co_top_arg
              /\ co_result.bottom_text = co_bottom_arg

\* C17 as stated: the custom variant keeps the caller's texts and calls no
\* caption source; the handler takes it exactly when both custom texts are
\* non-empty after stripping, and the AI variant otherwise.
C17_CustomElseAi ==
    /\ CustomVerbatim
    /\ Dispatched => co_variant = IF BothCustom THEN "custom" ELSE "ai"

\* C17 amended: the custom variant keeps the caller's texts and calls no
\* caption source; the handler takes it exactly when both custom texts are
\* non-empty after stripping; otherwise it takes the AI variant when the
\* topic is non-empty after stripping, and answers 400 without composing
\* when it is empty.
C17_CustomElseAiOrRefused ==
    /\ CustomVerbatim
    /\ Dispatched =>
          /\ co_variant = IF BothCustom THEN "custom"
                          ELSE IF Strip(co_request.topic) # <<>> THEN "ai"
                          ELSE "rejected"
          /\ co_variant = "custom" =>
                /\ co_top_arg = Strip(co_request.custom_top_text)
                /\ co_bottom_arg = Strip(co_request.custom_bottom_text)
          /\ co_variant = "rejected" =>
                /\ co_pc = "done" /\ co_result.kind = "http"
                /\ co_downloads = 0 /\ co_caption_calls = 0 /\ co_writes = 0

\* A request with both custom texts, padded with blanks, has succeeded.
C17_Witness ==
    /\ co_caller = "handler" /\ co_variant = "custom" /\ co_pc = "done"
    /\ co_request.custom_top_text = <<" ", "y", "o", " ">>
    /\ co_result.success /\ co_result.top_text = <<"y", "o">> /\ co_result.bottom_text = <<"h", "i">>

\* ------------------------------------------------- claims: the output path

\* Composition p has returned success.
Saved(p) == cc_pc[p] = "done" /\ cc_result[p].success

\* C18: two compositions on the shared output directory, also with the same
\* topic and saving within the same second, get different paths, so that two
\* files result.
C18_DistinctFiles ==
    \A p, q \in Procs :
        (p # q /\ Saved(p) /\ Saved(q)) =>
            /\ cc_filename[p] # cc_filename[q]
            /\ Cardinality(DOMAIN cc_files) = 2

\* The first whitespace-delimited word of the topic of p.
FirstWord(p) == Split(cc_topic[p])[1]

\* C19: the path is memes/meme_<first word of the topic>_<timestamp>.png;
\* compositions whose topics share the first word and whose timestamps are of
\* the same second get the same path, and of two that saved to the same path
\* the file is the one of the later save.
C19_PathByFirstWordAndSecond ==
    /\ \A p \in Procs :
          cc_filename[p] # None =>
              cc_filename[p] = <<"m", "e", "m", "e", "s", "/", "m", "e", "m", "e", "_">> \o FirstWord(p) \o <<"_">>
                                   \o FormatTimestamp(cc_timestamp[p]) \o <<".", "p", "n", "g">>
    /\ \A p, q \in Procs :
          (/\ cc_filename[p] # None /\ cc_filename[q] # None
           /\ FirstWord(p) = FirstWord(q) /\ cc_timestamp[p] = cc_timestamp[q])
              => cc_filename[p] = cc_filename[q]
    /\ \A p, q \in Procs :
          (p # q /\ Saved(p) /\ Saved(q) /\ cc_filename[p] = cc_filename[q]) =>
              /\ DOMAIN cc_files = {cc_filename[p]}
              /\ cc_files[cc_filename[p]].by = cc_saves[Len(cc_saves)]

\* Two compositions with topics "cats" and "cats dogs" saved within one
\* second after the minute turned: one file, of the later save.
C19_Witness ==
    /\ cc_topic[1] = <<"c", "a", "t", "s">> /\ cc_topic[2] = <<"c", "a", "t", "s", " ", "d", "o", "g", "s">>
    /\ Saved(1) /\ Saved(2)
    /\ cc_filename[1] = <<"m", "e", "m", "e", "s", "/", "m", "e", "m", "e", "_", "c", "a", "t", "s", "_", "2", "0", "2", "4", "0", "1", "0", "1", "_", "0", "0", "0", "1", "0", "0", ".", "p", "n", "g">>
    /\ cc_filename[2] = cc_filename[1]
    /\ cc_saves = <<2, 1>>
    /\ cc_files[cc_filename[1]].by = 1

\* C20: whatever the topic, the slug in the filename has no path separator
\* and no parent-directory component, and a file written is a direct child
\* of the output directory.
C20_SlugSafe ==
    co_filename # None =>
        LET slug == TopicSlug(co_topic)
            parts == SplitOn(slug, PathSeparator)
        IN  /\ ~Contains(slug, PathSeparator)
            /\ \A i \in 1..Len(parts) : parts[i] # ParentComponent
            /\ ParentDir(co_filename) = OutputDir

\* ------------------------------------------------ claims: get_meme_template

\* Every entry of the listing has its three keys.
CompleteListing == \A i \in 1..Len(co_memes) : co_memes[i].keys = AllKeys

\* C21: get_meme_template terminates: from a listing of complete entries it
\* comes to return a landscape candidate or the failure value, also when no
\* entry is landscape.
C21_TemplateTerminates ==
    (co_pc = "choose" /\ CompleteListing) ~> (co_template \in {"found", "failed"})

\* ------------------------------------------------- claims: the generator

\* C22: an instance is completed only with font_path set from a font file
\* found or downloaded; when the constructor raises in a request,
\* initialize_generator returns False without assigning the global (which is
\* None unless another request's construction completed), the request is
\* answered with status 500 and calls nothing on the generator.
C22_NoGeneratorWithoutFont ==
    /\ ig_fonts \subseteq {"found", "downloaded"}
    /\ ig_constructed = 0 => ig_generator = NoGenerator
    /\ \A t \in Threads :
          (ig_pc[t] = "assign" \/ ig_init[t] = "true") =>
              ig_font_path[t] \in {"found", "downloaded"}
    /\ \A t \in Threads :
          ig_init[t] = "false" =>
              /\ ig_pc[t] = "done" /\ ig_status[t] = 500 /\ ig_called[t] = "none"
              /\ ig_generator = NoGenerator \/ ig_owner # t

\* The font download failed in a request for a meme: status 500, no
\* generator.
C22_Witness ==
    \E t \in Threads :
        /\ ig_endpoint[t] = "generate" /\ ig_init[t] = "false" /\ ~ig_font_file
        /\ ig_status[t] = 500 /\ ig_generator = NoGenerator /\ ig_constructed = 0

\* C29: in every interleaving of requests the generator is constructed at
\* most once, the global once set is not assigned again, and no handler
\* calls a method on None.
C29_LazySingleton ==
    /\ ig_constructed <= 1
    /\ ~ig_replaced
    /\ \A t \in Threads : ig_called[t] # "on_none"

\* --------------------------------------------- claims: one font, two blocks

\* The layout of the composition is computed.
LaidOut == cm_pc \in {"top", "bottom", "save"} \/ (cm_pc = "done" /\ cm_result.success)

\* The lines of a block are those of text wrapped with the one font size, and
\* each is measured and drawn with it.
BlockUsesSize(drawn, caption) ==
    LET ls == WrapText(caption, cm_font_size, max_text_width)
    IN  /\ Len(drawn) = Len(ls)
        /\ \A i \in 1..Len(drawn) :
              /\ drawn[i].text = ls[i]
              /\ drawn[i].size = cm_font_size
              /\ drawn[i].x = XPosition(img[1], ls[i], cm_font_size)

\* C23: the font size is computed once, from the caption with more
\* characters (the top caption when both have as many), and every line of
\* both blocks is wrapped, measured and drawn with that size.
C23_OneFontSize ==
    /\ [](LaidOut =>
            /\ cm_font_size = CalculateFontSize(img[1], img[2],
                    IF Len(top_text) >= Len(bottom_text) THEN top_text ELSE bottom_text)
            /\ cm_pc \in {"bottom", "save", "done"} => BlockUsesSize(top_drawn, top_text)
            /\ cm_pc \in {"save", "done"} => BlockUsesSize(bottom_drawn, bottom_text))
    /\ [][LaidOut => cm_font_size' = cm_font_size]_vars

\* Captions of nine characters each, a narrow top and a wide bottom, on the
\* 800x2400 image: the size is the one of the top caption.
C23_Witness ==
    /\ cm_pc = "done" /\ cm_result.success /\ img = <<800, 2400>>
    /\ top_text = <<"i", " ", "i", " ", "i", " ", "i", " ", "i">> /\ bottom_text = <<"W", "W", "W", "W", " ", "W", "W", "W", "W">>
    /\ cm_font_size = CalculateFontSize(800, 2400, top_text)
    /\ cm_font_size # CalculateFontSize(800, 2400, bottom_text)
    /\ Len(bottom_drawn) > 1

\* C24: line i (from 0) of a bottom block of n lines is drawn at
\* H - margin - (n - i) * line_height and the running y ends at H - margin;
\* line i of the top block is drawn at margin + i * line_height; a caption
\* of no line draws nothing.
C24_BlockAnchors ==
    /\ cm_pc \in {"bottom", "save"} \/ (cm_pc = "done" /\ cm_result.success) =>
          /\ Len(top_drawn) = Len(WrapText(top_text, cm_font_size, max_text_width))
          /\ \A i \in 1..Len(top_drawn) :
                top_drawn[i].y = Margin(img[2]) + (i - 1) * LineHeight(cm_font_size)
    /\ cm_pc = "save" \/ (cm_pc = "done" /\ cm_result.success) =>
          LET n == Len(WrapText(bottom_text, cm_font_size, max_text_width))
          IN  /\ Len(bottom_drawn) = n
              /\ \A i \in 1..n :
                    bottom_drawn[i].y =
                        img[2] - Margin(img[2]) - (n - (i - 1)) * LineHeight(cm_font_size)
              /\ y_position = img[2] - Margin(img[2])

\* A top caption of no line and a bottom caption of several lines are drawn.
C24_Witness ==
    /\ cm_pc = "done" /\ cm_result.success
    /\ top_text = <<>> /\ top_drawn = <<>>
    /\ Len(bottom_drawn) >= 3
    /\ bottom_drawn[Len(bottom_drawn)].y + line_height = img[2] - margin

\* ------------------------------------------- claims: download and view

\* The entry a path names when every name of it exists: "." and empty names
\* dropped, ".." taken to the parent.
RECURSIVE Normalise(_, _)
Normalise(entry, names) ==
    IF names = <<>> THEN entry
    ELSE LET name == Head(names)
         IN  Normalise(IF name \in {<<>>, <<".">>} THEN entry
                       ELSE IF name = <<".", ".">>
                            THEN (IF entry = <<>> THEN <<>>
                                  ELSE SubSeq(entry, 1, Len(entry) - 1))
                       ELSE Append(entry, name),
                       Tail(names))

\* The path names an entry directly inside the memes directory.
DirectChild(path) ==
    LET entry == Normalise(IF path # <<>> /\ path[1] = "/" THEN <<>> ELSE WorkingDir,
                           Components(path))
    IN  Len(entry) = Len(MemesDir) + 1 /\ SubSeq(entry, 1, Len(MemesDir)) = MemesDir

\* C25: for every filename, the path tested for existence and served is
\* memes/<basename of filename>, a direct child of the memes directory.
C25_OnlyMemesChildren ==
    sv_pc \in {"exists", "send", "done"} =>
        /\ sv_path = MemesDirName \o <<"/">> \o Basename(sv_filename)
        /\ DirectChild(sv_path)
        /\ sv_sent # <<>> => sv_sent = sv_path

\* ------------------------------------------------ claims: greedy wrapping

\* C26: for every two consecutive returned lines, the earlier line followed
\* by a space and the first word of the later line is wider than max_width:
\* no line is broken earlier than the width forces.
C26_GreedyMaximal ==
    wrap_pc = "done" =>
        \A j \in 1..(Len(lines) - 1) :
            ~Fits(lines[j] \o <<" ">> \o Split(lines[j + 1])[1])

\* C26 witness: words that all fit, and a line of two words that is followed
\* by another line.
C26_Witness ==
    /\ wrap_pc = "done" /\ AllFit(Split(text))
    /\ \E j \in 1..(Len(lines) - 1) : Len(Split(lines[j])) >= 2

\* ------------------------------------- claims: sizing, wrapping and blocks

\* The caption _calculate_font_size was called with, and the lines drawn for it.
SizedCaption == IF Len(bottom_text) > Len(top_text) THEN bottom_text ELSE top_text
SizedDrawn == IF Len(bottom_text) > Len(top_text) THEN bottom_drawn ELSE top_drawn

\* The image is landscape or square and the search stopped at a size at which
\* the caption is at most 0.80 of the image width.
LandscapeFit ==
    /\ cm_pc = "done" /\ cm_result.success
    /\ img[1] >= img[2]
    /\ GetLength(SizedCaption, cm_font_size) * 100 <= img[1] * MaxWidthRatioPct * EmUnits

\* C27 as stated: on such an image the non-empty caption the size was
\* computed from is wrapped to exactly one line.
C27_OneLine ==
    (LandscapeFit /\ SizedCaption # <<>>) => Len(SizedDrawn) = 1

\* C27, amended: the caption is wrapped to exactly one line when it holds a
\* word, and to no line when it holds blanks only.
C27_OneLineOfWords ==
    LandscapeFit =>
        /\ Split(SizedCaption) # <<>> =>
              /\ Len(SizedDrawn) = 1
              /\ SizedDrawn[1].text = Join(Split(SizedCaption))
        /\ Split(SizedCaption) = <<>> => SizedDrawn = <<>>

\* A caption of three words on the square image: the search went below its
\* start and stopped above the floor, at a size whose text width lies between
\* the image width less four margins and 0.80 of the image width.
C27_Witness ==
    /\ LandscapeFit /\ img = <<1000, 1000>>
    /\ Len(Split(SizedCaption)) = 3
    /\ cm_font_size < FontStart(img[2]) /\ cm_font_size > FontFloor(img[2])
    /\ GetLength(SizedCaption, cm_font_size) > (img[1] - 4 * margin) * EmUnits
    /\ Len(SizedDrawn) = 1

\* C28: when the two captions wrap to at most 5 lines in total, the top
\* block ends at or above the y the bottom block starts at:
\* margin + nTop * line_height <= H - margin - nBottom * line_height.
C28_ShortBlocksApart ==
    (cm_pc = "done" /\ cm_result.success /\ Len(top_drawn) + Len(bottom_drawn) <= 5) =>
        /\ margin = IntPct(img[2], MarginPct)
        /\ line_height = IntPct(cm_font_size, LineHeightPct)
        /\ margin + Len(top_drawn) * line_height
              <= img[2] - margin - Len(bottom_drawn) * line_height
        /\ \A i \in 1..Len(top_drawn) : \A j \in 1..Len(bottom_drawn) :
              top_drawn[i].y + line_height <= bottom_drawn[j].y

\* Five lines in two blocks of several lines each, at a size above the floor.
C28_Witness ==
    /\ cm_pc = "done" /\ cm_result.success
    /\ Len(top_drawn) + Len(bottom_drawn) = 5
    /\ Len(top_drawn) >= 2 /\ Len(bottom_drawn) >= 2

\* ------------------------------------------------- claims: the scripts

\* The calls made so far whose outcome is in `kinds`, in order.
CallsWith(kinds) == SelectSeq([i \in 1..Len(bt_outcomes) |-> i], LAMBDA i : bt_outcomes[i] \in kinds)

\* The messages printed for the calls: all but the summary and the farewell.
CallMessages == SelectSeq(bt_printed, LAMBDA msg : msg \in {"success", "failed", "error", "init_error"})

\* C30: successful_memes has as many entries as calls returned success True,
\* every topic whose call failed or raised is in failed_memes, the two lists
\* hold every topic exactly once, and the interactive script prints the
\* success message only for a result with success True.
C30_FaithfulReport ==
    /\ bt_script = "batch" =>
          /\ Len(bt_successful) = Len(CallsWith({"success"}))
          /\ \A i \in 1..Len(bt_outcomes) :
                bt_outcomes[i] \in {"failure", "raised"} =>
                    \E j \in 1..Len(bt_failed) : bt_failed[j] = i
          /\ \A i \in 1..Len(bt_outcomes) :
                Len(SelectSeq(bt_successful \o bt_failed, LAMBDA t : t = i)) = 1
    /\ bt_script = "interactive" =>
          \A i \in 1..Len(bt_outcomes) :
              (i <= Len(CallMessages) /\ CallMessages[i] = "success") =>
                  bt_outcomes[i] = "success"

====
